---------------------------- MODULE Spec2Model ----------------------------
(***************************************************************************)
(* Model of the telemetry core of prism-dashboard:                         *)
(*   - InMemoryStore (src/unnamed/part_010): capacity-bounded collections  *)
(*     of logs, metrics and traces with secondary indexes;                 *)
(*   - WebSocketStreamService                                              *)
(*     (src/otel-dashboard-api/Services/WebSocketStreamService.cs): the    *)
(*     per-connection bounded queues of the streaming fan-out.             *)
(* The store is modelled twice over the same operators: handler by handler *)
(* (calls executed one after another) and one linearizable collection      *)
(* operation at a time (calls of several threads interleaved).             *)
(***************************************************************************)
EXTENDS Integers, Sequences, FiniteSets, TLC

(***************************************************************************)
(* Bounds of the model.  The capacities stand for the configured           *)
(* _maxLogs, _maxMetrics, _maxTraces (100000, 100000, 50000) and for the   *)
(* channel capacity 1000, scaled down so that eviction happens.            *)
(***************************************************************************)
MaxLogs == 2

MaxMetrics == 2

MaxTraces == 2

MaxOps == 4

MaxConcOps == 4

NThreads == 2

Threads == 1..NThreads

(***************************************************************************)
(* Values of the records' fields.  "" is the absent string (the code tests *)
(* string.IsNullOrEmpty), NoTime the absent DateTime? / long? / limit.     *)
(***************************************************************************)
NoTime == 0

Times == {1, 2}

Null == ""

LogShapes(S, T, L, TS) == [svc : S, trace : T, level : L, ts : TS]

MetricShapes(N, S, TS) == [name : N, svc : S, ts : TS]

SpanShapes(T, P, S, TS, D) == [trace : T, parent : P, svc : S, start : TS, dur : D]

VARIABLES
    logIdCounter,      \* _logIdCounter
    metricIdCounter,   \* _metricIdCounter
    logs,              \* _logs: sequence of log entries, head = oldest
    metrics,           \* _metrics
    tracesByTraceId,   \* _tracesByTraceId: trace id -> reference into spanLists
    spanLists,         \* the List<TraceSpan> objects ever allocated, by reference
    logsByService,     \* _logsByService: key -> queue
    logsByTraceId,     \* _logsByTraceId
    metricsByName,     \* _metricsByName
    metricsByService,  \* _metricsByService
    ops,               \* number of store calls made so far (bounds the run)
    qres,              \* the last query and what it returned
    pc,                \* per thread: position inside its Add call
    loc,               \* per thread: the locals of its Add call
    connections,       \* keys of _connections
    socket,            \* per connection: Socket.State
    queue,             \* per connection: the items buffered in MessageQueue
    subscriptions,     \* per connection: Subscriptions
    cancelled,         \* per connection: CancellationTokenSource is cancelled
    handler,           \* per connection: position of HandleConnectionAsync
    sender,            \* per connection: position of ProcessOutgoingMessagesAsync
    receiver,          \* per connection: position of ProcessIncomingMessagesAsync
    message,           \* per connection: the item the sender took from the queue
    broadcast,         \* the BroadcastAsync call in progress, if any
    published,         \* number of BroadcastAsync calls made so far
    enqueued,          \* history, per connection: items written to its queue
    dropped,           \* history, per connection: items the full queue dropped
    frames,            \* history, per connection: frames sent on its socket
    inbound,           \* per connection: the text frame its receiver is handling
    faulted,           \* history: the broadcasts that threw to their caller
    call,              \* per thread: the ingestion call it is executing
    client,            \* the dashboard's WebSocketService (browser side)
    stats,             \* the last GetSubscriptionStats call and its result
    logged,            \* history, per connection: log lines of BroadcastAsync
    ring,              \* the dashboard's RingBuffer object (browser side)
    pushed,            \* history: the items pushed since the last clear, in order
    arrayOut,          \* what the last toArray call returned
    sse                \* the SSE StreamLogs request: lastId, what it wrote

storeVars == <<logIdCounter, metricIdCounter, logs, metrics, tracesByTraceId,
               spanLists, logsByService, logsByTraceId, metricsByName,
               metricsByService>>

threadVars == <<pc, loc>>

wsVars == <<connections, socket, queue, subscriptions, cancelled, handler, sender,
            receiver, message, broadcast, published, enqueued, dropped, frames,
            inbound, faulted>>

storeSide == <<storeVars, ops, qres, threadVars>>

viewVars == <<ring, pushed, arrayOut, sse>>

extraVars == <<client, stats, logged, viewVars>>

vars == <<storeSide, wsVars, call, extraVars>>

(***************************************************************************)
(* Helpers on sequences and dictionaries.                                  *)
(***************************************************************************)
Range(s) == {s[i] : i \in 1..Len(s)}

Min(a, b) == IF a <= b THEN a ELSE b

\* ConcurrentDictionary.GetOrAdd(key, _ => new ConcurrentQueue<T>())
GetOrAddQueue(dict, key) ==
    IF key \in DOMAIN dict THEN dict ELSE dict @@ (key :> <<>>)

\* GetOrAddQueue(dict, key).Enqueue(x)
IndexEnqueue(dict, key, x) ==
    [GetOrAddQueue(dict, key) EXCEPT ![key] = Append(@, x)]

\* Enumerable.Take(limit)
Take(s, limit) == IF limit <= 0 THEN <<>> ELSE SubSeq(s, 1, Min(limit, Len(s)))

\* the key of a sort: l.Timestamp, m.Timestamp, r.RootSpan.StartTime
SortKey(x) == IF "ts" \in DOMAIN x THEN x.ts ELSE x.root.start

RECURSIVE InsertDesc(_, _)
\* x placed after every element whose key is >= its own: the sort is stable
InsertDesc(s, x) ==
    IF s = <<>> THEN <<x>>
    ELSE IF SortKey(Head(s)) >= SortKey(x)
         THEN <<Head(s)>> \o InsertDesc(Tail(s), x)
         ELSE <<x>> \o s

RECURSIVE OrderByDescending(_)
\* Enumerable.OrderByDescending(key): stable, greatest key first
OrderByDescending(s) ==
    IF s = <<>> THEN <<>>
    ELSE InsertDesc(OrderByDescending(SubSeq(s, 1, Len(s) - 1)), s[Len(s)])

(***************************************************************************)
(* InMemoryStore: logs.                                                    *)
(***************************************************************************)
RECURSIVE TrimLogsOffByOne(_)
\* a trim that lets the queue keep one element too many
TrimLogsOffByOne(q) ==
    IF Len(q) > MaxLogs + 1 THEN TrimLogsOffByOne(Tail(q)) ELSE q

RECURSIVE TrimLogsIfNeeded(_)
\* while (_logs.Count > _maxLogs && _logs.TryDequeue(out _)) { }
TrimLogsIfNeeded(q) ==
    IF Len(q) > MaxLogs /\ q # <<>> THEN TrimLogsIfNeeded(Tail(q)) ELSE q

\* log with { Id = id }
LogWithId(log, id) == [id |-> id] @@ log

\* AddLog, run to completion with no other call interleaved
AddLog(log) ==
    LET id == logIdCounter + 1
        logWithId == LogWithId(log, id)
    IN  /\ ops < MaxOps
        /\ ops' = ops + 1
        /\ logIdCounter' = id
        /\ logs' = TrimLogsIfNeeded(Append(logs, logWithId))
        /\ logsByService' = IndexEnqueue(logsByService, log.svc, logWithId)
        /\ logsByTraceId' = IF log.trace # Null
                            THEN IndexEnqueue(logsByTraceId, log.trace, logWithId)
                            ELSE logsByTraceId
        /\ qres' = [op |-> "AddLog", id |-> id, rec |-> logWithId]
        /\ UNCHANGED <<metricIdCounter, metrics, tracesByTraceId, spanLists,
                       metricsByName, metricsByService, threadVars>>
        /\ UNCHANGED <<wsVars, call, extraVars>>

\* the enumerable QueryLogs starts from: an index when the key has one
QueryLogsSource(serviceName, traceId) ==
    IF traceId # Null /\ traceId \in DOMAIN logsByTraceId
    THEN logsByTraceId[traceId]
    ELSE IF serviceName # Null /\ serviceName \in DOMAIN logsByService
         THEN logsByService[serviceName]
         ELSE logs

\* the Where clauses of QueryLogs
LogPasses(l, level, startTime, endTime) ==
    /\ level # Null => l.level = level
    /\ startTime # NoTime => l.ts >= startTime
    /\ endTime # NoTime => l.ts <= endTime

QueryLogsResult(serviceName, level, startTime, endTime, traceId, limit) ==
    LET src == QueryLogsSource(serviceName, traceId)
        filtered == SelectSeq(src, LAMBDA l : LogPasses(l, level, startTime, endTime))
    IN  Take(OrderByDescending(filtered), limit)

QueryLogs(serviceName, level, startTime, endTime, traceId, limit) ==
    /\ ops < MaxOps
    /\ ops' = ops + 1
    /\ qres' = [op |-> "QueryLogs", svc |-> serviceName, level |-> level,
                start |-> startTime, end |-> endTime, trace |-> traceId,
                limit |-> limit,
                out |-> QueryLogsResult(serviceName, level, startTime, endTime,
                                        traceId, limit)]
    /\ UNCHANGED <<storeVars, threadVars>>
    /\ UNCHANGED <<wsVars, call, extraVars>>

(***************************************************************************)
(* InMemoryStore: metrics.                                                 *)
(***************************************************************************)
RECURSIVE TrimMetricsIfNeeded(_)
\* while (_metrics.Count > _maxMetrics && _metrics.TryDequeue(out _)) { }
TrimMetricsIfNeeded(q) ==
    IF Len(q) > MaxMetrics /\ q # <<>> THEN TrimMetricsIfNeeded(Tail(q)) ELSE q

\* metric with { Id = id }
MetricWithId(metric, id) == [id |-> id] @@ metric

\* AddMetric, run to completion with no other call interleaved
AddMetric(metric) ==
    LET id == metricIdCounter + 1
        metricWithId == MetricWithId(metric, id)
    IN  /\ ops < MaxOps
        /\ ops' = ops + 1
        /\ metricIdCounter' = id
        /\ metrics' = TrimMetricsIfNeeded(Append(metrics, metricWithId))
        /\ metricsByName' = IndexEnqueue(metricsByName, metric.name, metricWithId)
        /\ metricsByService' = IndexEnqueue(metricsByService, metric.svc, metricWithId)
        /\ qres' = [op |-> "AddMetric", id |-> id, rec |-> metricWithId]
        /\ UNCHANGED <<logIdCounter, logs, tracesByTraceId, spanLists,
                       logsByService, logsByTraceId, threadVars>>
        /\ UNCHANGED <<wsVars, call, extraVars>>

\* the enumerable QueryMetrics starts from: an index when the key has one
QueryMetricsSource(name, serviceName) ==
    IF name # Null /\ name \in DOMAIN metricsByName
    THEN metricsByName[name]
    ELSE IF serviceName # Null /\ serviceName \in DOMAIN metricsByService
         THEN metricsByService[serviceName]
         ELSE metrics

\* the Where clauses of QueryMetrics
MetricPasses(m, startTime, endTime) ==
    /\ startTime # NoTime => m.ts >= startTime
    /\ endTime # NoTime => m.ts <= endTime

QueryMetricsResult(name, serviceName, startTime, endTime, limit) ==
    LET src == QueryMetricsSource(name, serviceName)
        filtered == SelectSeq(src, LAMBDA m : MetricPasses(m, startTime, endTime))
    IN  Take(OrderByDescending(filtered), limit)

QueryMetrics(name, serviceName, startTime, endTime, limit) ==
    /\ ops < MaxOps
    /\ ops' = ops + 1
    /\ qres' = [op |-> "QueryMetrics", name |-> name, svc |-> serviceName,
                start |-> startTime, end |-> endTime, limit |-> limit,
                out |-> QueryMetricsResult(name, serviceName, startTime, endTime, limit)]
    /\ UNCHANGED <<storeVars, threadVars>>
    /\ UNCHANGED <<wsVars, call, extraVars>>

(***************************************************************************)
(* InMemoryStore: traces.  A trace is a List<TraceSpan> object held by     *)
(* the dictionary; spanLists holds the objects, the dictionary their       *)
(* references, so that a caller can still hold a list that was removed.    *)
(***************************************************************************)
SpanEnd(s) == s.start + s.dur

\* dict without key: ConcurrentDictionary.TryRemove(key, out _)
TryRemove(dict, key) == [k \in DOMAIN dict \ {key} |-> dict[k]]

\* the (Key, StartTime) pairs TrimTracesIfNeeded collects with SelectMany
SpanStarts(dict, lists) ==
    UNION {{<<k, lists[dict[k]][i].start>> : i \in 1..Len(lists[dict[k]])} :
           k \in DOMAIN dict}

\* a TrimTracesIfNeeded that takes the latest start time for the oldest
OldestKeysByLatestStart(dict, lists) ==
    LET all == SpanStarts(dict, lists)
    IN  {p[1] : p \in {q \in all : \A r \in all : q[2] >= r[2]}}

\* the keys OrderBy(StartTime).FirstOrDefault() can yield: the sort is stable
\* and the dictionary enumerates in no specified order, so any key holding a
\* span of the minimum start time
OldestKeys(dict, lists) ==
    LET all == SpanStarts(dict, lists)
    IN  {p[1] : p \in {q \in all : \A r \in all : q[2] <= r[2]}}

RECURSIVE TrimTracesIfNeeded(_, _)
\* the dictionaries the while loop of TrimTracesIfNeeded can end with
TrimTracesIfNeeded(dict, lists) ==
    IF Cardinality(DOMAIN dict) > MaxTraces /\ OldestKeys(dict, lists) # {}
    THEN UNION {TrimTracesIfNeeded(TryRemove(dict, k), lists) : k \in OldestKeys(dict, lists)}
    ELSE {dict}

\* _tracesByTraceId.GetOrAdd(span.TraceId, _ => new List<TraceSpan>()): the
\* dictionary and the list objects afterwards
GetOrAddList(dict, lists, key) ==
    IF key \in DOMAIN dict
    THEN [dict |-> dict, lists |-> lists]
    ELSE [dict |-> dict @@ (key :> Len(lists) + 1), lists |-> Append(lists, <<>>)]

\* AddSpan, run to completion with no other call interleaved
AddSpan(span) ==
    LET got == GetOrAddList(tracesByTraceId, spanLists, span.trace)
        ref == got.dict[span.trace]
        added == [got.lists EXCEPT ![ref] = Append(@, span)]
    IN  /\ ops < MaxOps
        /\ ops' = ops + 1
        /\ spanLists' = added
        /\ tracesByTraceId' \in TrimTracesIfNeeded(got.dict, added)
        /\ qres' = [op |-> "AddSpan", rec |-> span]
        /\ UNCHANGED <<logIdCounter, metricIdCounter, logs, metrics, logsByService,
                       logsByTraceId, metricsByName, metricsByService, threadVars>>
        /\ UNCHANGED <<wsVars, call, extraVars>>

\* spans.OrderBy(s => s.StartTime): stable, least start first
RECURSIVE InsertByStart(_, _)
InsertByStart(s, x) ==
    IF s = <<>> THEN <<x>>
    ELSE IF Head(s).start <= x.start
         THEN <<Head(s)>> \o InsertByStart(Tail(s), x)
         ELSE <<x>> \o s

RECURSIVE OrderByStart(_)
OrderByStart(s) ==
    IF s = <<>> THEN <<>>
    ELSE InsertByStart(OrderByStart(SubSeq(s, 1, Len(s) - 1)), s[Len(s)])

\* GetTrace: the spans by start time, or NotFound (null)
NotFound == [found |-> FALSE]

\* a GetTrace that returns the list as it was filled
GetTraceResultUnordered(traceId) ==
    IF traceId \in DOMAIN tracesByTraceId
    THEN [found |-> TRUE, spans |-> spanLists[tracesByTraceId[traceId]]]
    ELSE NotFound

GetTraceResult(traceId) ==
    IF traceId \in DOMAIN tracesByTraceId
    THEN [found |-> TRUE, spans |-> OrderByStart(spanLists[tracesByTraceId[traceId]])]
    ELSE NotFound

\* spans.FirstOrDefault(s => s.ParentSpanId == null), else the earliest span;
\* only used on a list that is not empty
RootSpan(spans) ==
    LET roots == SelectSeq(spans, LAMBDA s : s.parent = Null)
    IN  IF roots # <<>> THEN Head(roots) ELSE Head(OrderByStart(spans))

\* the four filters of QueryTraces on a root span
RootPasses(root, serviceName, minDurationMs, startTime, endTime) ==
    /\ ~(serviceName # Null /\ root.svc # serviceName)
    /\ ~(minDurationMs # NoTime /\ root.dur < minDurationMs)
    /\ ~(startTime # NoTime /\ root.start < startTime)
    /\ ~(endTime # NoTime /\ SpanEnd(root) > endTime)

RECURSIVE QueryTracesScan(_, _, _, _, _, _, _)
\* the foreach of QueryTraces over the dictionary enumerated in order ord
QueryTracesScan(ord, results, serviceName, minDurationMs, startTime, endTime, limit) ==
    IF ord = <<>> THEN results
    ELSE LET spans == spanLists[tracesByTraceId[Head(ord)]]
             rest == Tail(ord)
         IN  IF spans = <<>> \/ ~RootPasses(RootSpan(spans), serviceName, minDurationMs,
                                            startTime, endTime)
             THEN QueryTracesScan(rest, results, serviceName, minDurationMs,
                                  startTime, endTime, limit)
             ELSE LET more == Append(results, [traceId |-> Head(ord),
                                               root |-> RootSpan(spans)])
                  IN  IF Len(more) >= limit THEN more
                      ELSE QueryTracesScan(rest, more, serviceName, minDurationMs,
                                           startTime, endTime, limit)

\* the orders in which a ConcurrentDictionary can enumerate its keys
Enumerations(dict) ==
    {ord \in [1..Cardinality(DOMAIN dict) -> DOMAIN dict] :
        \A i, j \in DOMAIN ord : i # j => ord[i] # ord[j]}

QueryTraces(ord, serviceName, minDurationMs, startTime, endTime, limit) ==
    /\ ops < MaxOps
    /\ ops' = ops + 1
    /\ qres' = [op |-> "QueryTraces", svc |-> serviceName, minDur |-> minDurationMs,
                start |-> startTime, end |-> endTime, limit |-> limit,
                out |-> OrderByDescending(
                           QueryTracesScan(ord, <<>>, serviceName, minDurationMs,
                                           startTime, endTime, limit))]
    /\ UNCHANGED <<storeVars, threadVars>>
    /\ UNCHANGED <<wsVars, call, extraVars>>

GetTrace(traceId) ==
    /\ ops < MaxOps
    /\ ops' = ops + 1
    /\ qres' = [op |-> "GetTrace", trace |-> traceId, out |-> GetTraceResult(traceId)]
    /\ UNCHANGED <<storeVars, threadVars>>
    /\ UNCHANGED <<wsVars, call, extraVars>>

\* TracesController.GetTrace: 404 when the store returns null or no span,
\* else 200 with the spans and their count
TracesControllerGetTrace(out) ==
    IF ~out.found \/ Len(out.spans) = 0
    THEN [status |-> 404]
    ELSE [status |-> 200, spans |-> out.spans, spanCount |-> Len(out.spans)]

(***************************************************************************)
(* InMemoryStore: statistics.                                              *)
(***************************************************************************)
\* (_logs.Count, _metrics.Count, _tracesByTraceId.Count)
GetStatsResult ==
    [LogCount |-> Len(logs), MetricCount |-> Len(metrics),
     TraceCount |-> Cardinality(DOMAIN tracesByTraceId)]

GetStats ==
    /\ ops < MaxOps
    /\ ops' = ops + 1
    /\ qres' = [op |-> "GetStats", out |-> GetStatsResult]
    /\ UNCHANGED <<storeVars, threadVars>>
    /\ UNCHANGED <<wsVars, call, extraVars>>

(***************************************************************************)
(* WebSocketStreamService.  Every connection has a bounded channel         *)
(* (capacity 1000, FullMode = DropOldest), a subscription set and two      *)
(* tasks, the sender and the receiver; HandleConnectionAsync waits for     *)
(* either to end and then cleans up.  QueueCapacity stands for the 1000.   *)
(***************************************************************************)
QueueCapacity == 2

MaxBroadcasts == 3

ConnectionIds == {"c1", "c2"}

Channels == {"logs", "metrics"}

NoMessage == [type |-> "none"]

NoBroadcast == [active |-> FALSE]

NoFrame == [type |-> "none", channel |-> Null]

\* the Type of the text frames a peer can send: the two control messages,
\* JSON with another type, JSON whose type is null, text that is not the JSON
\* of a WebSocketSubscription
FrameTypes == {"subscribe", "unsubscribe", "other", "null", "invalid"}

\* new WebSocketMessage<T> { Type = "data", Channel = channel, Payload = data }
WebSocketMessage(channel, data) ==
    [type |-> "data", channel |-> channel, payload |-> data]

Messages == {WebSocketMessage(ch, d) : ch \in Channels, d \in 1..MaxBroadcasts}

\* a write that never drops: the queue grows past its capacity
TryWriteUnbounded(items, item) ==
    [items |-> Append(items, item), written |-> TRUE, dropped |-> <<>>]

\* a write that drops the item being written when the queue is full
TryWriteDropNewest(items, item) ==
    IF Len(items) < QueueCapacity
    THEN [items |-> Append(items, item), written |-> TRUE, dropped |-> <<>>]
    ELSE [items |-> items, written |-> TRUE, dropped |-> <<item>>]

\* MessageQueue.Writer.TryWrite(message) on the channel created with
\* BoundedChannelOptions(1000) { FullMode = DropOldest }: the items afterwards,
\* the value returned and what was dropped
TryWrite(items, item) ==
    IF Len(items) < QueueCapacity
    THEN [items |-> Append(items, item), written |-> TRUE, dropped |-> <<>>]
    ELSE [items |-> Append(Tail(items), item), written |-> TRUE,
          dropped |-> <<Head(items)>>]

\* BroadcastAsync line 112-115: LogDebug("Message dropped for ...") when
\* TryWrite returned false
LogDebugDropped(w) ==
    IF ~w.written THEN <<"Message dropped">> ELSE <<>>

\* HandleConnectionAsync up to Task.WhenAny: the channel and the state are
\* created, the connection registered, both tasks started
HandleConnectionAsync(c) ==
    /\ handler[c] = "none"
    /\ connections' = connections \cup {c}
    /\ socket' = [socket EXCEPT ![c] = "Open"]
    /\ handler' = [handler EXCEPT ![c] = "running"]
    /\ sender' = [sender EXCEPT ![c] = "wait"]
    /\ receiver' = [receiver EXCEPT ![c] = "receive"]
    /\ UNCHANGED <<queue, subscriptions, cancelled, message, broadcast, published,
                   enqueued, dropped, frames>>
    /\ UNCHANGED <<storeSide, call, extraVars, inbound, faulted>>

\* the connections BroadcastAsync selects: subscribed to channel, socket open
SubscribedConnections(channel) ==
    {c \in connections : channel \in subscriptions[c] /\ socket[c] = "Open"}

\* a switch whose default case subscribes
HandleSubscriptionMessageDefaultSubscribes(subs, type, channel) ==
    IF type = "unsubscribe" THEN subs \ {channel} ELSE subs \cup {channel}

\* HandleSubscriptionMessage line 213-223: the subscription set afterwards
HandleSubscriptionMessage(subs, type, channel) ==
    IF type = "subscribe" THEN subs \cup {channel}
    ELSE IF type = "unsubscribe" THEN subs \ {channel}
    ELSE subs

\* the receiver of c is inside Subscriptions.Add / Remove (line 216, 220);
\* Subscriptions is a HashSet<string> that no lock protects (line 25)
Racing(c) ==
    receiver[c] = "handle" /\ inbound[c].type \in {"subscribe", "unsubscribe"}

\* the values Subscriptions.Contains(channel) (line 99) can produce: the
\* set's answer, or, read while the receiver mutates the set, the answer
\* before, the answer after, or a miss
ContainsOutcomes(c, channel) ==
    IF Racing(c)
    THEN {channel \in subscriptions[c],
          channel \in HandleSubscriptionMessage(subscriptions[c], inbound[c].type,
                                                inbound[c].channel),
          FALSE}
    ELSE {channel \in subscriptions[c]}

\* the lists BroadcastAsync line 98-101 can build
ListedConnections(channel) ==
    {targets \in SUBSET connections :
        \A c \in connections :
            /\ c \in targets =>
                  socket[c] = "Open" /\ TRUE \in ContainsOutcomes(c, channel)
            /\ c \notin targets =>
                  socket[c] # "Open" \/ FALSE \in ContainsOutcomes(c, channel)}

\* BroadcastAsync line 89-104: the message is built, the subscribed
\* connections listed; with none the call returns.  A Contains that reads a
\* set under mutation may also throw InvalidOperationException, which
\* nothing in BroadcastAsync catches.
BroadcastBegin(channel) ==
    /\ ~broadcast.active
    /\ published < MaxBroadcasts
    /\ published' = published + 1
    /\ \/ \E targets \in ListedConnections(channel) :
            /\ broadcast' = IF targets = {}
                            THEN NoBroadcast
                            ELSE [active |-> TRUE,
                                  message |-> WebSocketMessage(channel, published + 1),
                                  targets |-> targets]
            /\ faulted' = faulted
       \/ /\ \E c \in connections : Racing(c)
          /\ broadcast' = NoBroadcast
          /\ faulted' = faulted \cup {published + 1}
    /\ UNCHANGED <<connections, socket, queue, subscriptions, cancelled, handler,
                   sender, receiver, message, enqueued, dropped, frames, inbound>>
    /\ UNCHANGED <<storeSide, call, extraVars>>

\* a write that waits for room in the queue of a slow connection
BroadcastWriteWaits(c) ==
    /\ broadcast.active
    /\ c \in broadcast.targets
    /\ Len(queue[c]) < QueueCapacity
    /\ queue' = [queue EXCEPT ![c] = Append(@, broadcast.message)]
    /\ enqueued' = [enqueued EXCEPT ![c] = Append(@, broadcast.message)]
    /\ broadcast' = IF broadcast.targets = {c} THEN NoBroadcast
                    ELSE [broadcast EXCEPT !.targets = @ \ {c}]
    /\ UNCHANGED <<connections, socket, subscriptions, cancelled, handler, sender,
                   receiver, message, published, dropped, frames>>
    /\ UNCHANGED <<storeSide, call, extraVars, inbound, faulted>>

\* BroadcastAsync line 107-123: TryWrite into the queue of one listed
\* connection; after the last one the call returns
BroadcastWrite(c) ==
    /\ broadcast.active
    /\ c \in broadcast.targets
    /\ LET w == TryWrite(queue[c], broadcast.message)
       IN  /\ queue' = [queue EXCEPT ![c] = w.items]
           /\ enqueued' = [enqueued EXCEPT ![c] = Append(@, broadcast.message)]
           /\ dropped' = [dropped EXCEPT ![c] = @ \o w.dropped]
           /\ logged' = [logged EXCEPT ![c] = @ \o LogDebugDropped(w)]
    /\ broadcast' = IF broadcast.targets = {c} THEN NoBroadcast
                    ELSE [broadcast EXCEPT !.targets = @ \ {c}]
    /\ UNCHANGED <<connections, socket, subscriptions, cancelled, handler, sender,
                   receiver, message, published, frames>>
    /\ UNCHANGED <<storeSide, call, client, stats, inbound, faulted, viewVars>>

\* a reader that yields the newest item of the queue instead of the oldest
SenderTakeNewest(c) ==
    /\ sender[c] = "wait"
    /\ queue[c] # <<>>
    /\ message' = [message EXCEPT ![c] = queue[c][Len(queue[c])]]
    /\ queue' = [queue EXCEPT ![c] = SubSeq(@, 1, Len(@) - 1)]
    /\ sender' = [sender EXCEPT ![c] = "check"]
    /\ UNCHANGED <<connections, socket, subscriptions, cancelled, handler, receiver,
                   broadcast, published, enqueued, dropped, frames>>
    /\ UNCHANGED <<storeSide, call, extraVars, inbound, faulted>>

\* ProcessOutgoingMessagesAsync line 138: ReadAllAsync yields the oldest item
SenderTake(c) ==
    /\ sender[c] = "wait"
    /\ queue[c] # <<>>
    /\ message' = [message EXCEPT ![c] = Head(queue[c])]
    /\ queue' = [queue EXCEPT ![c] = Tail(@)]
    /\ sender' = [sender EXCEPT ![c] = "check"]
    /\ UNCHANGED <<connections, socket, subscriptions, cancelled, handler, receiver,
                   broadcast, published, enqueued, dropped, frames>>
    /\ UNCHANGED <<storeSide, call, extraVars, inbound, faulted>>

\* ProcessOutgoingMessagesAsync line 138, 156: the wait for an item is
\* cancelled, the OperationCanceledException caught
SenderCancelled(c) ==
    /\ sender[c] = "wait"
    /\ cancelled[c]
    /\ sender' = [sender EXCEPT ![c] = "done"]
    /\ UNCHANGED <<connections, socket, queue, subscriptions, cancelled, handler,
                   receiver, message, broadcast, published, enqueued, dropped, frames>>
    /\ UNCHANGED <<storeSide, call, extraVars, inbound, faulted>>

\* ProcessOutgoingMessagesAsync line 140-141: break unless the socket is open
SenderCheck(c) ==
    /\ sender[c] = "check"
    /\ sender' = [sender EXCEPT ![c] = IF socket[c] = "Open" THEN "send" ELSE "done"]
    /\ message' = [message EXCEPT ![c] = IF socket[c] = "Open" THEN @ ELSE NoMessage]
    /\ UNCHANGED <<connections, socket, queue, subscriptions, cancelled, handler,
                   receiver, broadcast, published, enqueued, dropped, frames>>
    /\ UNCHANGED <<storeSide, call, extraVars, inbound, faulted>>

\* ProcessOutgoingMessagesAsync line 143-153: the frame is sent, or SendAsync
\* throws (cancelled, or the socket no longer open) and the task ends
SenderSend(c) ==
    /\ sender[c] = "send"
    /\ IF socket[c] = "Open" /\ ~cancelled[c]
       THEN /\ frames' = [frames EXCEPT ![c] = Append(@, message[c])]
            /\ sender' = [sender EXCEPT ![c] = "wait"]
       ELSE /\ frames' = frames
            /\ sender' = [sender EXCEPT ![c] = "done"]
    /\ message' = [message EXCEPT ![c] = NoMessage]
    /\ UNCHANGED <<connections, socket, queue, subscriptions, cancelled, handler,
                   receiver, broadcast, published, enqueued, dropped>>
    /\ UNCHANGED <<storeSide, call, extraVars, inbound, faulted>>

\* ProcessIncomingMessagesAsync line 176-192: a text frame is received and
\* handed to HandleSubscriptionMessage
ReceiveText(c, type, channel) ==
    /\ receiver[c] = "receive"
    /\ socket[c] = "Open"
    /\ ~cancelled[c]
    /\ inbound' = [inbound EXCEPT ![c] = [type |-> type, channel |-> channel]]
    /\ receiver' = [receiver EXCEPT ![c] = "handle"]
    /\ UNCHANGED <<connections, socket, queue, subscriptions, cancelled, handler,
                   sender, message, broadcast, published, enqueued, dropped, frames>>
    /\ UNCHANGED <<storeSide, call, extraVars, faulted>>

\* HandleSubscriptionMessage line 204-230: subscribe / unsubscribe change
\* the set; a JsonException is caught and logged, another type is ignored,
\* and the loop goes on (line 174).  A null Type makes Type.ToLower() throw
\* NullReferenceException, which neither method catches: the receiver ends.
SubscriptionHandled(c) ==
    /\ receiver[c] = "handle"
    /\ subscriptions' = [subscriptions EXCEPT
                            ![c] = HandleSubscriptionMessage(@, inbound[c].type,
                                                             inbound[c].channel)]
    /\ receiver' = [receiver EXCEPT
                       ![c] = IF inbound[c].type = "null" THEN "done" ELSE "receive"]
    /\ inbound' = [inbound EXCEPT ![c] = NoFrame]
    /\ UNCHANGED <<connections, socket, queue, cancelled, handler, sender, message,
                   broadcast, published, enqueued, dropped, frames>>
    /\ UNCHANGED <<storeSide, call, extraVars, faulted>>

\* ProcessIncomingMessagesAsync line 180-187: a close frame is received; the
\* close handshake completes and the loop is left, or CloseAsync throws
ReceiveClose(c) ==
    /\ receiver[c] = "receive"
    /\ socket[c] = "Open"
    /\ ~cancelled[c]
    /\ \E closed \in {"Closed", "Aborted"} :
          socket' = [socket EXCEPT ![c] = closed]
    /\ receiver' = [receiver EXCEPT ![c] = "done"]
    /\ UNCHANGED <<connections, queue, subscriptions, cancelled, handler, sender,
                   message, broadcast, published, enqueued, dropped, frames>>
    /\ UNCHANGED <<storeSide, call, extraVars, inbound, faulted>>

\* ProcessIncomingMessagesAsync line 176: the peer is gone, ReceiveAsync
\* throws WebSocketException and the task ends
ReceiveFailed(c) ==
    /\ receiver[c] = "receive"
    /\ socket[c] = "Open"
    /\ socket' = [socket EXCEPT ![c] = "Aborted"]
    /\ receiver' = [receiver EXCEPT ![c] = "done"]
    /\ UNCHANGED <<connections, queue, subscriptions, cancelled, handler, sender,
                   message, broadcast, published, enqueued, dropped, frames>>
    /\ UNCHANGED <<storeSide, call, extraVars, inbound, faulted>>

\* ProcessIncomingMessagesAsync line 174, 196: the receive is cancelled or the
\* socket is found not open, the task ends
ReceiverStopped(c) ==
    /\ receiver[c] = "receive"
    /\ cancelled[c] \/ socket[c] # "Open"
    /\ receiver' = [receiver EXCEPT ![c] = "done"]
    /\ UNCHANGED <<connections, socket, queue, subscriptions, cancelled, handler,
                   sender, message, broadcast, published, enqueued, dropped, frames>>
    /\ UNCHANGED <<storeSide, call, extraVars, inbound, faulted>>

\* the cancellationToken passed to HandleConnectionAsync is cancelled (request
\* aborted, server shutdown); both tasks observe it through linkedCts
RequestAborted(c) ==
    /\ handler[c] = "running"
    /\ ~cancelled[c]
    /\ cancelled' = [cancelled EXCEPT ![c] = TRUE]
    /\ UNCHANGED <<connections, socket, queue, subscriptions, handler, sender,
                   receiver, message, broadcast, published, enqueued, dropped, frames>>
    /\ UNCHANGED <<storeSide, call, extraVars, inbound, faulted>>

\* a finally block that forgets to cancel the connection's token
HandlerCleanupNoCancel(c) ==
    /\ handler[c] = "running"
    /\ sender[c] = "done" \/ receiver[c] = "done"
    /\ connections' = connections \ {c}
    /\ handler' = [handler EXCEPT ![c] = "close"]
    /\ UNCHANGED <<socket, queue, subscriptions, cancelled, sender, receiver, message,
                   broadcast, published, enqueued, dropped, frames>>
    /\ UNCHANGED <<storeSide, call, extraVars, inbound, faulted>>

\* HandleConnectionAsync line 64, 72-73: WhenAny returns, the connection's
\* token is cancelled and the connection removed from the registry
HandlerCleanup(c) ==
    /\ handler[c] = "running"
    /\ sender[c] = "done" \/ receiver[c] = "done"
    /\ cancelled' = [cancelled EXCEPT ![c] = TRUE]
    /\ connections' = connections \ {c}
    /\ handler' = [handler EXCEPT ![c] = "close"]
    /\ UNCHANGED <<socket, queue, subscriptions, sender, receiver, message,
                   broadcast, published, enqueued, dropped, frames>>
    /\ UNCHANGED <<storeSide, call, extraVars, inbound, faulted>>

\* HandleConnectionAsync line 75-80: the socket is closed if still open;
\* CloseAsync completes the handshake or throws and leaves the socket aborted
HandlerClose(c) ==
    /\ handler[c] = "close"
    /\ \E closed \in {"Closed", "Aborted"} :
          socket' = [socket EXCEPT ![c] = IF @ = "Open" THEN closed ELSE @]
    /\ handler' = [handler EXCEPT ![c] = "ended"]
    /\ UNCHANGED <<connections, queue, subscriptions, cancelled, sender, receiver,
                   message, broadcast, published, enqueued, dropped, frames>>
    /\ UNCHANGED <<storeSide, call, extraVars, inbound, faulted>>

\* what the foreach over conn.Subscriptions (line 246) can see of the set of
\* one connection: the set, or, enumerated while the receiver mutates it,
\* the set before or after the change
SubscriptionViews(c) ==
    IF Racing(c)
    THEN {subscriptions[c],
          HandleSubscriptionMessage(subscriptions[c], inbound[c].type,
                                    inbound[c].channel)}
    ELSE {subscriptions[c]}

\* stats[sub] = count + 1 for every channel of every connection
CountSubscriptions(view) ==
    [ch \in UNION {view[c] : c \in DOMAIN view} |->
        Cardinality({c \in DOMAIN view : ch \in view[c]})]

MaxStatsCalls == 2

\* GetSubscriptionStats line 241-253, called by the health endpoint on a
\* request thread.  An enumeration of a HashSet that is modified meanwhile
\* may also throw InvalidOperationException.
GetSubscriptionStats ==
    /\ stats.n < MaxStatsCalls
    /\ \/ \E view \in {v \in [connections -> SUBSET (Channels \cup {"alerts"})] :
                         \A c \in connections : v[c] \in SubscriptionViews(c)} :
            stats' = [op |-> "GetSubscriptionStats", n |-> stats.n + 1,
                      threw |-> FALSE, out |-> CountSubscriptions(view)]
       \/ /\ \E c \in connections : Racing(c)
          /\ stats' = [op |-> "GetSubscriptionStats", n |-> stats.n + 1,
                       threw |-> TRUE, out |-> <<>>]
    /\ UNCHANGED <<storeSide, wsVars, call, client, logged, viewVars>>

(***************************************************************************)
(* Initial state: the store after construction, no call in progress.       *)
(***************************************************************************)
EmptyDict == <<>>

NoResult == [op |-> "none"]

Idle == [op |-> "none"]

NoCall == [pc |-> "none"]

NoStats == [op |-> "none", n |-> 0]

\* the WebSocketService as constructed: no socket, no attempt made, no timer
\* pending, no channel in its set
NoClient ==
    [socket |-> 0, status |-> "disconnected", readyState |-> <<>>,
     reconnectAttempts |-> 0, timers |-> <<>>, subscriptions |-> {},
     sent |-> <<>>, calls |-> 0, userClosed |-> FALSE]

\* no RingBuffer has been constructed yet
NoRing == [capacity |-> 0, buffer |-> <<>>, head |-> 0, tail |-> 0, size |-> 0]

\* no StreamLogs request has been made yet
NoStream ==
    [state |-> "none", serviceName |-> Null, lastId |-> 0, written |-> <<>>,
     polls |-> 0]

Init ==
    /\ logIdCounter = 0
    /\ metricIdCounter = 0
    /\ logs = <<>>
    /\ metrics = <<>>
    /\ tracesByTraceId = EmptyDict
    /\ spanLists = <<>>
    /\ logsByService = EmptyDict
    /\ logsByTraceId = EmptyDict
    /\ metricsByName = EmptyDict
    /\ metricsByService = EmptyDict
    /\ ops = 0
    /\ qres = NoResult
    /\ pc = [t \in Threads |-> "idle"]
    /\ loc = [t \in Threads |-> Idle]
    /\ connections = {}
    /\ socket = [c \in ConnectionIds |-> "None"]
    /\ queue = [c \in ConnectionIds |-> <<>>]
    /\ subscriptions = [c \in ConnectionIds |-> {}]
    /\ cancelled = [c \in ConnectionIds |-> FALSE]
    /\ handler = [c \in ConnectionIds |-> "none"]
    /\ sender = [c \in ConnectionIds |-> "none"]
    /\ receiver = [c \in ConnectionIds |-> "none"]
    /\ message = [c \in ConnectionIds |-> NoMessage]
    /\ broadcast = NoBroadcast
    /\ published = 0
    /\ enqueued = [c \in ConnectionIds |-> <<>>]
    /\ dropped = [c \in ConnectionIds |-> <<>>]
    /\ frames = [c \in ConnectionIds |-> <<>>]
    /\ inbound = [c \in ConnectionIds |-> NoFrame]
    /\ faulted = {}
    /\ call = [t \in Threads |-> NoCall]
    /\ client = NoClient
    /\ stats = NoStats
    /\ logged = [c \in ConnectionIds |-> <<>>]
    /\ ring = NoRing
    /\ pushed = <<>>
    /\ arrayOut = <<>>
    /\ sse = NoStream

(***************************************************************************)
(* Calls executed one after another: every handler runs to completion.     *)
(***************************************************************************)
SeqLogInputs == LogShapes({"a"}, {Null, "t1"}, {"Info"}, {1})

SeqMetricInputs == MetricShapes({"m1"}, {"a"}, {1})

SeqSpanInputs == SpanShapes({"t1", "t2", "t3"}, {Null}, {"a"}, Times, {1})

Next ==
    \/ \E log \in SeqLogInputs : AddLog(log)
    \/ \E metric \in SeqMetricInputs : AddMetric(metric)
    \/ \E span \in SeqSpanInputs : AddSpan(span)
    \/ \E traceId \in {"t1", "t2", "t3"} : GetTrace(traceId)
    \/ GetStats

Spec == Init /\ [][Next]_vars

(***************************************************************************)
(* Calls of several threads interleaved: one step per operation on a       *)
(* concurrent collection (Interlocked.Increment, Enqueue, GetOrAdd, Count, *)
(* TryDequeue, TryRemove, a list access under its lock).  pc[t] is the     *)
(* position of thread t inside its call, loc[t] its locals.                *)
(***************************************************************************)
Goto(t, label) == pc' = [pc EXCEPT ![t] = label]

\* AddLog line 49-50: the id is taken, the entry copied
BeginAddLog(t, log) ==
    /\ pc[t] = "idle"
    /\ ops < MaxConcOps
    /\ ops' = ops + 1
    /\ logIdCounter' = logIdCounter + 1
    /\ loc' = [loc EXCEPT ![t] = [op |-> "AddLog", rec |-> LogWithId(log, logIdCounter + 1)]]
    /\ Goto(t, "log_enqueue")
    /\ UNCHANGED <<metricIdCounter, logs, metrics, tracesByTraceId, spanLists,
                   logsByService, logsByTraceId, metricsByName, metricsByService, qres>>
    /\ UNCHANGED <<wsVars, call, extraVars>>

\* an Enqueue that puts the entry at the head of the collection
LogEnqueueFront(t) ==
    /\ pc[t] = "log_enqueue"
    /\ logs' = <<loc[t].rec>> \o logs
    /\ Goto(t, "log_service_get")
    /\ UNCHANGED <<logIdCounter, metricIdCounter, metrics, tracesByTraceId, spanLists,
                   logsByService, logsByTraceId, metricsByName, metricsByService,
                   ops, qres, loc>>
    /\ UNCHANGED <<wsVars, call, extraVars>>

\* AddLog line 52: _logs.Enqueue(logWithId)
LogEnqueue(t) ==
    /\ pc[t] = "log_enqueue"
    /\ logs' = Append(logs, loc[t].rec)
    /\ Goto(t, "log_service_get")
    /\ UNCHANGED <<logIdCounter, metricIdCounter, metrics, tracesByTraceId, spanLists,
                   logsByService, logsByTraceId, metricsByName, metricsByService,
                   ops, qres, loc>>
    /\ UNCHANGED <<wsVars, call, extraVars>>

\* AddLog line 55: GetOrAddQueue(_logsByService, log.ServiceName)
LogServiceGet(t) ==
    /\ pc[t] = "log_service_get"
    /\ logsByService' = GetOrAddQueue(logsByService, loc[t].rec.svc)
    /\ Goto(t, "log_service_enqueue")
    /\ UNCHANGED <<logIdCounter, metricIdCounter, logs, metrics, tracesByTraceId,
                   spanLists, logsByTraceId, metricsByName, metricsByService,
                   ops, qres, loc>>
    /\ UNCHANGED <<wsVars, call, extraVars>>

\* AddLog line 55-56: .Enqueue(logWithId), then the test of log.TraceId
LogServiceEnqueue(t) ==
    /\ pc[t] = "log_service_enqueue"
    /\ logsByService' = [logsByService EXCEPT ![loc[t].rec.svc] = Append(@, loc[t].rec)]
    /\ Goto(t, IF loc[t].rec.trace # Null THEN "log_trace_get" ELSE "log_trim")
    /\ UNCHANGED <<logIdCounter, metricIdCounter, logs, metrics, tracesByTraceId,
                   spanLists, logsByTraceId, metricsByName, metricsByService,
                   ops, qres, loc>>
    /\ UNCHANGED <<wsVars, call, extraVars>>

\* AddLog line 58: GetOrAddQueue(_logsByTraceId, log.TraceId)
LogTraceGet(t) ==
    /\ pc[t] = "log_trace_get"
    /\ logsByTraceId' = GetOrAddQueue(logsByTraceId, loc[t].rec.trace)
    /\ Goto(t, "log_trace_enqueue")
    /\ UNCHANGED <<logIdCounter, metricIdCounter, logs, metrics, tracesByTraceId,
                   spanLists, logsByService, metricsByName, metricsByService,
                   ops, qres, loc>>
    /\ UNCHANGED <<wsVars, call, extraVars>>

\* AddLog line 58: .Enqueue(logWithId)
LogTraceEnqueue(t) ==
    /\ pc[t] = "log_trace_enqueue"
    /\ logsByTraceId' = [logsByTraceId EXCEPT ![loc[t].rec.trace] = Append(@, loc[t].rec)]
    /\ Goto(t, "log_trim")
    /\ UNCHANGED <<logIdCounter, metricIdCounter, logs, metrics, tracesByTraceId,
                   spanLists, logsByService, metricsByName, metricsByService,
                   ops, qres, loc>>
    /\ UNCHANGED <<wsVars, call, extraVars>>

\* TrimLogsIfNeeded line 122, left operand: _logs.Count > _maxLogs
LogTrimCount(t) ==
    /\ pc[t] = "log_trim"
    /\ Goto(t, IF Len(logs) > MaxLogs THEN "log_dequeue" ELSE "return")
    /\ UNCHANGED <<storeVars, ops, qres, loc>>
    /\ UNCHANGED <<wsVars, call, extraVars>>

\* TrimLogsIfNeeded line 122, right operand: _logs.TryDequeue(out _)
LogTrimDequeue(t) ==
    /\ pc[t] = "log_dequeue"
    /\ logs' = IF logs # <<>> THEN Tail(logs) ELSE logs
    /\ Goto(t, IF logs # <<>> THEN "log_trim" ELSE "return")
    /\ UNCHANGED <<logIdCounter, metricIdCounter, metrics, tracesByTraceId, spanLists,
                   logsByService, logsByTraceId, metricsByName, metricsByService,
                   ops, qres, loc>>
    /\ UNCHANGED <<wsVars, call, extraVars>>

\* AddMetric line 135-136
BeginAddMetric(t, metric) ==
    /\ pc[t] = "idle"
    /\ ops < MaxConcOps
    /\ ops' = ops + 1
    /\ metricIdCounter' = metricIdCounter + 1
    /\ loc' = [loc EXCEPT ![t] = [op |-> "AddMetric",
                                  rec |-> MetricWithId(metric, metricIdCounter + 1)]]
    /\ Goto(t, "metric_enqueue")
    /\ UNCHANGED <<logIdCounter, logs, metrics, tracesByTraceId, spanLists,
                   logsByService, logsByTraceId, metricsByName, metricsByService, qres>>
    /\ UNCHANGED <<wsVars, call, extraVars>>

\* AddMetric line 138: _metrics.Enqueue(metricWithId)
MetricEnqueue(t) ==
    /\ pc[t] = "metric_enqueue"
    /\ metrics' = Append(metrics, loc[t].rec)
    /\ Goto(t, "metric_name_get")
    /\ UNCHANGED <<logIdCounter, metricIdCounter, logs, tracesByTraceId, spanLists,
                   logsByService, logsByTraceId, metricsByName, metricsByService,
                   ops, qres, loc>>
    /\ UNCHANGED <<wsVars, call, extraVars>>

\* AddMetric line 141: GetOrAddQueue(_metricsByName, metric.Name)
MetricNameGet(t) ==
    /\ pc[t] = "metric_name_get"
    /\ metricsByName' = GetOrAddQueue(metricsByName, loc[t].rec.name)
    /\ Goto(t, "metric_name_enqueue")
    /\ UNCHANGED <<logIdCounter, metricIdCounter, logs, metrics, tracesByTraceId,
                   spanLists, logsByService, logsByTraceId, metricsByService,
                   ops, qres, loc>>
    /\ UNCHANGED <<wsVars, call, extraVars>>

\* AddMetric line 141: .Enqueue(metricWithId)
MetricNameEnqueue(t) ==
    /\ pc[t] = "metric_name_enqueue"
    /\ metricsByName' = [metricsByName EXCEPT ![loc[t].rec.name] = Append(@, loc[t].rec)]
    /\ Goto(t, "metric_service_get")
    /\ UNCHANGED <<logIdCounter, metricIdCounter, logs, metrics, tracesByTraceId,
                   spanLists, logsByService, logsByTraceId, metricsByService,
                   ops, qres, loc>>
    /\ UNCHANGED <<wsVars, call, extraVars>>

\* AddMetric line 142: GetOrAddQueue(_metricsByService, metric.ServiceName)
MetricServiceGet(t) ==
    /\ pc[t] = "metric_service_get"
    /\ metricsByService' = GetOrAddQueue(metricsByService, loc[t].rec.svc)
    /\ Goto(t, "metric_service_enqueue")
    /\ UNCHANGED <<logIdCounter, metricIdCounter, logs, metrics, tracesByTraceId,
                   spanLists, logsByService, logsByTraceId, metricsByName,
                   ops, qres, loc>>
    /\ UNCHANGED <<wsVars, call, extraVars>>

\* AddMetric line 142: .Enqueue(metricWithId)
MetricServiceEnqueue(t) ==
    /\ pc[t] = "metric_service_enqueue"
    /\ metricsByService' = [metricsByService EXCEPT ![loc[t].rec.svc] = Append(@, loc[t].rec)]
    /\ Goto(t, "metric_trim")
    /\ UNCHANGED <<logIdCounter, metricIdCounter, logs, metrics, tracesByTraceId,
                   spanLists, logsByService, logsByTraceId, metricsByName,
                   ops, qres, loc>>
    /\ UNCHANGED <<wsVars, call, extraVars>>

\* TrimMetricsIfNeeded line 184, left operand: _metrics.Count > _maxMetrics
MetricTrimCount(t) ==
    /\ pc[t] = "metric_trim"
    /\ Goto(t, IF Len(metrics) > MaxMetrics THEN "metric_dequeue" ELSE "return")
    /\ UNCHANGED <<storeVars, ops, qres, loc>>
    /\ UNCHANGED <<wsVars, call, extraVars>>

\* TrimMetricsIfNeeded line 184, right operand: _metrics.TryDequeue(out _)
MetricTrimDequeue(t) ==
    /\ pc[t] = "metric_dequeue"
    /\ metrics' = IF metrics # <<>> THEN Tail(metrics) ELSE metrics
    /\ Goto(t, IF metrics # <<>> THEN "metric_trim" ELSE "return")
    /\ UNCHANGED <<logIdCounter, metricIdCounter, logs, tracesByTraceId, spanLists,
                   logsByService, logsByTraceId, metricsByName, metricsByService,
                   ops, qres, loc>>
    /\ UNCHANGED <<wsVars, call, extraVars>>

\* AddSpan line 193: _tracesByTraceId.GetOrAdd(span.TraceId, ...)
BeginAddSpan(t, span) ==
    LET got == GetOrAddList(tracesByTraceId, spanLists, span.trace)
    IN  /\ pc[t] = "idle"
        /\ ops < MaxConcOps
        /\ ops' = ops + 1
        /\ tracesByTraceId' = got.dict
        /\ spanLists' = got.lists
        /\ loc' = [loc EXCEPT ![t] = [op |-> "AddSpan", rec |-> span,
                                      spans |-> got.dict[span.trace],
                                      oldest |-> Null]]
        /\ Goto(t, "span_add")
        /\ UNCHANGED <<logIdCounter, metricIdCounter, logs, metrics, logsByService,
                       logsByTraceId, metricsByName, metricsByService, qres>>
        /\ UNCHANGED <<wsVars, call, extraVars>>

\* AddSpan line 194-197: lock (spans) { spans.Add(span); }
SpanListAdd(t) ==
    /\ pc[t] = "span_add"
    /\ spanLists' = [spanLists EXCEPT ![loc[t].spans] = Append(@, loc[t].rec)]
    /\ Goto(t, "span_trim")
    /\ UNCHANGED <<logIdCounter, metricIdCounter, logs, metrics, tracesByTraceId,
                   logsByService, logsByTraceId, metricsByName, metricsByService,
                   ops, qres, loc>>
    /\ UNCHANGED <<wsVars, call, extraVars>>

\* TrimTracesIfNeeded line 261: _tracesByTraceId.Count > _maxTraces
SpanTrimCount(t) ==
    /\ pc[t] = "span_trim"
    /\ Goto(t, IF Cardinality(DOMAIN tracesByTraceId) > MaxTraces
               THEN "span_oldest" ELSE "return")
    /\ UNCHANGED <<storeVars, ops, qres, loc>>
    /\ UNCHANGED <<wsVars, call, extraVars>>

\* TrimTracesIfNeeded line 263-272: the oldest (Key, StartTime), or default
\* (then the loop breaks, line 280)
SpanTrimOldest(t) ==
    /\ pc[t] = "span_oldest"
    /\ IF OldestKeys(tracesByTraceId, spanLists) = {}
       THEN Goto(t, "return") /\ loc' = loc
       ELSE \E k \in OldestKeys(tracesByTraceId, spanLists) :
               /\ loc' = [loc EXCEPT ![t].oldest = k]
               /\ Goto(t, "span_remove")
    /\ UNCHANGED <<storeVars, ops, qres>>
    /\ UNCHANGED <<wsVars, call, extraVars>>

\* TrimTracesIfNeeded line 276: _tracesByTraceId.TryRemove(oldest.Key, out _)
SpanTrimRemove(t) ==
    /\ pc[t] = "span_remove"
    /\ tracesByTraceId' = TryRemove(tracesByTraceId, loc[t].oldest)
    /\ Goto(t, "span_trim")
    /\ UNCHANGED <<logIdCounter, metricIdCounter, logs, metrics, spanLists,
                   logsByService, logsByTraceId, metricsByName, metricsByService,
                   ops, qres, loc>>
    /\ UNCHANGED <<wsVars, call, extraVars>>

\* the call returns to its caller
Return(t) ==
    /\ pc[t] = "return"
    /\ Goto(t, "idle")
    /\ loc' = [loc EXCEPT ![t] = Idle]
    /\ UNCHANGED <<storeVars, ops, qres>>
    /\ UNCHANGED <<wsVars, call, extraVars>>

ConcLogInputs == LogShapes({"a"}, {Null, "t1"}, {"Info"}, {1})

ConcMetricInputs == MetricShapes({"m1"}, {"a"}, {1})

ConcSpanInputs == SpanShapes({"t1", "t2", "t3"}, {Null}, {"a"}, {1}, {1})

NextConc ==
    \E t \in Threads :
        \/ \E log \in ConcLogInputs : BeginAddLog(t, log)
        \/ LogEnqueue(t)
        \/ LogServiceGet(t)
        \/ LogServiceEnqueue(t)
        \/ LogTraceGet(t)
        \/ LogTraceEnqueue(t)
        \/ LogTrimCount(t)
        \/ LogTrimDequeue(t)
        \/ \E metric \in ConcMetricInputs : BeginAddMetric(t, metric)
        \/ MetricEnqueue(t)
        \/ MetricNameGet(t)
        \/ MetricNameEnqueue(t)
        \/ MetricServiceGet(t)
        \/ MetricServiceEnqueue(t)
        \/ MetricTrimCount(t)
        \/ MetricTrimDequeue(t)
        \/ \E span \in ConcSpanInputs : BeginAddSpan(t, span)
        \/ SpanListAdd(t)
        \/ SpanTrimCount(t)
        \/ SpanTrimOldest(t)
        \/ SpanTrimRemove(t)
        \/ Return(t)

SpecConc == Init /\ [][NextConc]_vars

(***************************************************************************)
(* Calls executed one after another, with the queries of one record type.  *)
(***************************************************************************)
LogQueryInputs == LogShapes({"a", "b"}, {Null, "t1"}, {"Info", "Error"}, Times)

NextLogQuery ==
    \/ \E log \in LogQueryInputs : AddLog(log)
    \/ \E serviceName \in {Null, "a", "b"}, level \in {Null, "Error"},
          startTime \in {NoTime, 2}, endTime \in {NoTime, 1},
          traceId \in {Null, "t1"}, limit \in {1, MaxOps} :
          QueryLogs(serviceName, level, startTime, endTime, traceId, limit)

SpecLogQuery == Init /\ [][NextLogQuery]_vars

MetricQueryInputs == MetricShapes({"m1", "m2"}, {"a", "b"}, Times)

NextMetricQuery ==
    \/ \E metric \in MetricQueryInputs : AddMetric(metric)
    \/ \E name \in {Null, "m1", "m2"}, serviceName \in {Null, "a", "b"},
          startTime \in {NoTime, 2}, endTime \in {NoTime, 1}, limit \in {1, MaxOps} :
          QueryMetrics(name, serviceName, startTime, endTime, limit)

SpecMetricQuery == Init /\ [][NextMetricQuery]_vars

TraceQueryInputs == SpanShapes({"t1", "t2", "t3"}, {Null, "p"}, {"a"}, Times, {1})

NextTraceQuery ==
    \/ \E span \in TraceQueryInputs : AddSpan(span)
    \/ \E ord \in Enumerations(tracesByTraceId), serviceName \in {Null, "a", "b"},
          minDurationMs \in {NoTime, 2}, startTime \in {NoTime, 2},
          endTime \in {NoTime, 2}, limit \in {1, MaxOps} :
          QueryTraces(ord, serviceName, minDurationMs, startTime, endTime, limit)

SpecTraceQuery == Init /\ [][NextTraceQuery]_vars

(***************************************************************************)
(* Calls executed one after another: spans with and without a parent, and  *)
(* the fetch of one trace.                                                 *)
(***************************************************************************)
TraceIds == {"t1", "t2", "t3"}

NextTrace ==
    \/ \E span \in TraceQueryInputs : AddSpan(span)
    \/ \E traceId \in TraceIds : GetTrace(traceId)

SpecTrace == Init /\ [][NextTrace]_vars

(***************************************************************************)
(* Trace and span identifiers on the two transports.  An identifier is a   *)
(* sequence of bytes on gRPC and a sequence of characters in JSON and in   *)
(* the store; MaxIdBytes bytes stand for the 16 (trace) and 8 (span).      *)
(* No connection is registered here, so the BroadcastAsync of the gRPC     *)
(* export finds no target and changes nothing.                             *)
(***************************************************************************)
MaxIdBytes == 1

HexUpper == <<"0", "1", "2", "3", "4", "5", "6", "7", "8", "9",
              "A", "B", "C", "D", "E", "F">>

HexLower == <<"0", "1", "2", "3", "4", "5", "6", "7", "8", "9",
              "a", "b", "c", "d", "e", "f">>

RECURSIVE ToHexString(_)
\* Convert.ToHexString: two uppercase hex characters per byte
ToHexString(bytes) ==
    IF bytes = <<>> THEN <<>>
    ELSE <<HexUpper[(Head(bytes) \div 16) + 1], HexUpper[(Head(bytes) % 16) + 1]>>
         \o ToHexString(Tail(bytes))

\* string.ToLowerInvariant on the characters of a hex string
ToLowerInvariant(s) ==
    [i \in DOMAIN s |->
        IF \E n \in DOMAIN HexUpper : HexUpper[n] = s[i]
        THEN HexLower[CHOOSE n \in DOMAIN HexUpper : HexUpper[n] = s[i]]
        ELSE s[i]]

\* OtlpHelpers.BytesToHex: empty for no bytes, else lowercase hex
BytesToHex(bytes) ==
    IF bytes = <<>> THEN <<>> ELSE ToLowerInvariant(ToHexString(bytes))

\* OtlpTraceGrpcService.ConvertSpan, the fields the store uses
ConvertSpan(traceId, spanId, start) ==
    [trace |-> BytesToHex(traceId), id |-> BytesToHex(spanId), parent |-> Null,
     svc |-> "a", start |-> start, dur |-> 1]

\* InMemoryStore.ParseTraceSpan, the fields the store uses: the JSON strings
\* are taken as they come
ParseTraceSpan(traceIdHex, spanIdHex, start) ==
    [trace |-> traceIdHex, id |-> spanIdHex, parent |-> Null,
     svc |-> "a", start |-> start, dur |-> 1]

\* OtlpTraceGrpcService.Export of one span
ExportSpan(traceId, spanId, start) == AddSpan(ConvertSpan(traceId, spanId, start))

\* POST /v1/traces, AddTracesJsonAsync of one span
AddTracesJson(traceIdHex, spanIdHex, start) ==
    AddSpan(ParseTraceSpan(traceIdHex, spanIdHex, start))

IdByteValues == {171, 186}

\* the identifiers a gRPC client sends
ByteIds == UNION {[1..n -> IdByteValues] : n \in 1..MaxIdBytes}

\* the same identifiers as an OTLP/JSON client spells them, in either case
JsonIds == {ToHexString(b) : b \in ByteIds} \cup {BytesToHex(b) : b \in ByteIds}

\* the identifiers a dashboard queries by
QueryIds == {BytesToHex(b) : b \in ByteIds}

NextIds ==
    \/ \E traceId \in ByteIds, spanId \in ByteIds : ExportSpan(traceId, spanId, 1)
    \/ \E traceIdHex \in JsonIds, spanIdHex \in JsonIds :
          AddTracesJson(traceIdHex, spanIdHex, 1)
    \/ \E traceId \in QueryIds : GetTrace(traceId)

SpecIds == Init /\ [][NextIds]_vars

(***************************************************************************)
(* Log severity on the two transports.  A stored log keeps, in sev, the    *)
(* OTLP severity number it was sent with.  No connection is registered     *)
(* here, so the BroadcastAsync of the gRPC export finds no target.         *)
(***************************************************************************)
\* OtlpHelpers.MapSeverity on (int)severity
MapSeverity(severityInt) ==
    IF severityInt >= 21 THEN "Fatal"
    ELSE IF severityInt >= 17 THEN "Error"
    ELSE IF severityInt >= 13 THEN "Warn"
    ELSE IF severityInt >= 9 THEN "Info"
    ELSE IF severityInt >= 5 THEN "Debug"
    ELSE IF severityInt >= 1 THEN "Debug"
    ELSE "Info"

\* a JSON mapping that takes an unset severity for Debug
MapSeverityNumberUnsetDebug(severityNumber) ==
    IF severityNumber >= 21 THEN "Fatal"
    ELSE IF severityNumber >= 17 THEN "Error"
    ELSE IF severityNumber >= 13 THEN "Warn"
    ELSE IF severityNumber >= 9 THEN "Info"
    ELSE "Debug"

\* InMemoryStore.MapSeverityNumber
MapSeverityNumber(severityNumber) ==
    IF severityNumber >= 21 THEN "Fatal"
    ELSE IF severityNumber >= 17 THEN "Error"
    ELSE IF severityNumber >= 13 THEN "Warn"
    ELSE IF severityNumber >= 9 THEN "Info"
    ELSE IF severityNumber >= 5 THEN "Debug"
    ELSE IF severityNumber >= 1 THEN "Debug"
    ELSE "Info"

\* the severityNumber property of a JSON log record: a number, a string of
\* digits, or absent
AbsentSeverity == [kind |-> "absent", n |-> 0]

\* ParseLogEntry: severityNumber = 0 unless the property is a number
\* (GetInt32) or a string that int.TryParse accepts
JsonSeverityNumber(sevNum) ==
    IF sevNum.kind = "number" THEN sevNum.n
    ELSE IF sevNum.kind = "string" THEN sevNum.n
    ELSE 0

\* OtlpLogsGrpcService.ConvertLogRecord, the fields the store uses
ConvertLogRecord(severityNumber, serviceName) ==
    [svc |-> serviceName, trace |-> Null, level |-> MapSeverity(severityNumber),
     ts |-> 1, sev |-> severityNumber]

\* InMemoryStore.ParseLogEntry, the fields the store uses
ParseLogEntry(sevNum, serviceName) ==
    [svc |-> serviceName, trace |-> Null,
     level |-> MapSeverityNumber(JsonSeverityNumber(sevNum)),
     ts |-> 1, sev |-> JsonSeverityNumber(sevNum)]

\* OtlpLogsGrpcService.Export of one log record
ExportLog(severityNumber, serviceName) ==
    AddLog(ConvertLogRecord(severityNumber, serviceName))

\* POST /v1/logs, AddLogsJsonAsync of one log record
AddLogsJson(sevNum, serviceName) == AddLog(ParseLogEntry(sevNum, serviceName))

\* severity numbers: unset (0), the 24 defined ones, and values out of range
\* up to the ends of int
Severities == (-1..25) \cup {-2147483647 - 1, 2147483647}

\* the severity numbers of the logs sent to a store that already holds one:
\* every number is tried on the empty store, a few on top of it
LaterSeverities == {0, 17}

SeveritiesNow == IF logIdCounter = 0 THEN Severities ELSE LaterSeverities

JsonSeverities ==
    {AbsentSeverity} \cup [kind : {"number"}, n : SeveritiesNow]
                     \cup [kind : {"string"}, n : LaterSeverities]

SeverityServices == {"checkout", "b"}

NextSeverity ==
    \/ \E severityNumber \in SeveritiesNow, serviceName \in SeverityServices :
          ExportLog(severityNumber, serviceName)
    \/ \E sevNum \in JsonSeverities, serviceName \in SeverityServices :
          AddLogsJson(sevNum, serviceName)
    \/ \E serviceName \in SeverityServices, limit \in {1, MaxOps} :
          QueryLogs(serviceName, Null, NoTime, NoTime, Null, limit)

SpecSeverity == Init /\ [][NextSeverity]_vars

(***************************************************************************)
(* The dashboard's WebSocketService (websocket.service.ts).  The browser   *)
(* runs one callback at a time, so every method and every event handler is *)
(* one step.  client.readyState holds the readyState of every WebSocket    *)
(* object created so far, client.socket the index of the one this.socket   *)
(* refers to (0 for null), client.sent the frames sent on each, and        *)
(* client.userClosed whether the application's last call of connect() or   *)
(* disconnect() was disconnect().  wsUrl is                                *)
(* a constant, well-formed ws: URL, so the WebSocket constructor does not  *)
(* throw.  MaxReconnectAttempts stands for the 10 of maxReconnectAttempts. *)
(***************************************************************************)
MaxSockets == 3

MaxReconnectAttempts == 2

MaxClientCalls == 3

ReconnectInterval == 3000

ClientChannels == {"logs", "traces"}

RECURSIVE Power(_, _)
Power(b, n) == IF n = 0 THEN 1 ELSE b * Power(b, n - 1)

\* reconnectInterval * Math.pow(1.5, reconnectAttempts - 1), in whole ms
ReconnectDelay(attempts) ==
    (ReconnectInterval * Power(3, attempts - 1)) \div Power(2, attempts - 1)

\* the socket this.socket refers to is OPEN
SocketIsOpen(k) == k.socket # 0 /\ k.readyState[k.socket] = "OPEN"

\* sendSubscription: nothing unless this.socket is OPEN
SendSubscription(k, type, channel) ==
    IF ~SocketIsOpen(k) THEN k
    ELSE [k EXCEPT !.sent[k.socket] = Append(@, <<type, channel>>)]

RECURSIVE Resubscribe(_, _)
\* this.subscriptions.forEach(channel => sendSubscription('subscribe', channel))
Resubscribe(k, channels) ==
    IF channels = {} THEN k
    ELSE LET channel == CHOOSE ch \in channels : TRUE
         IN  Resubscribe(SendSubscription(k, "subscribe", channel), channels \ {channel})

\* connect(): nothing when this.socket is OPEN, else a new WebSocket
Connect(k) ==
    IF SocketIsOpen(k) THEN k
    ELSE [k EXCEPT !.status = "connecting",
                   !.readyState = Append(@, "CONNECTING"),
                   !.sent = Append(@, <<>>),
                   !.socket = Len(k.readyState) + 1]

\* handleReconnect(): below the maximum, count the attempt and set a timer
HandleReconnect(k) ==
    IF k.reconnectAttempts < MaxReconnectAttempts
    THEN [k EXCEPT !.reconnectAttempts = @ + 1,
                   !.timers = Append(@, ReconnectDelay(k.reconnectAttempts + 1))]
    ELSE k

\* the application calls connect()
ClientConnect ==
    /\ client.calls < MaxClientCalls
    /\ SocketIsOpen(client) \/ Len(client.readyState) < MaxSockets
    /\ client' = [Connect(client) EXCEPT !.calls = @ + 1, !.userClosed = FALSE]
    /\ UNCHANGED <<storeSide, wsVars, call, stats, logged, viewVars>>

\* the application calls subscribe(channel)
ClientSubscribe(channel) ==
    /\ client.calls < MaxClientCalls
    /\ client' = [SendSubscription([client EXCEPT !.subscriptions = @ \cup {channel}],
                                   "subscribe", channel)
                     EXCEPT !.calls = @ + 1]
    /\ UNCHANGED <<storeSide, wsVars, call, stats, logged, viewVars>>

\* the application calls unsubscribe(channel)
ClientUnsubscribe(channel) ==
    /\ client.calls < MaxClientCalls
    /\ client' = [SendSubscription([client EXCEPT !.subscriptions = @ \ {channel}],
                                   "unsubscribe", channel)
                     EXCEPT !.calls = @ + 1]
    /\ UNCHANGED <<storeSide, wsVars, call, stats, logged, viewVars>>

\* disconnect(), line 111-114: this.socket?.close(); this.socket = null.
\* close() moves a CONNECTING or OPEN WebSocket to CLOSING; its close event
\* is delivered later, as a callback of its own
Disconnect(k) ==
    IF k.socket = 0 THEN k
    ELSE [k EXCEPT !.readyState[k.socket] =
                       IF @ \in {"CONNECTING", "OPEN"} THEN "CLOSING" ELSE @,
                   !.socket = 0]

\* the application calls disconnect()
ClientDisconnect ==
    /\ client.calls < MaxClientCalls
    /\ client' = [Disconnect(client) EXCEPT !.calls = @ + 1, !.userClosed = TRUE]
    /\ UNCHANGED <<storeSide, wsVars, call, stats, logged, viewVars>>

\* a timer set by handleReconnect fires: connect()
TimerFires(i) ==
    /\ i \in 1..Len(client.timers)
    /\ SocketIsOpen(client) \/ Len(client.readyState) < MaxSockets
    /\ client' = Connect([client EXCEPT !.timers =
                             SubSeq(@, 1, i - 1) \o SubSeq(@, i + 1, Len(@))])
    /\ UNCHANGED <<storeSide, wsVars, call, stats, logged, viewVars>>

\* socket.onopen of WebSocket s
SocketOpen(s) ==
    /\ s \in 1..Len(client.readyState)
    /\ client.readyState[s] = "CONNECTING"
    /\ client' = Resubscribe([client EXCEPT !.readyState[s] = "OPEN",
                                            !.status = "connected",
                                            !.reconnectAttempts = 0],
                             client.subscriptions)
    /\ UNCHANGED <<storeSide, wsVars, call, stats, logged, viewVars>>

\* socket.onclose of WebSocket s: the connection attempt failed, the open
\* connection dropped, or close() was called on it
SocketClose(s) ==
    /\ s \in 1..Len(client.readyState)
    /\ client.readyState[s] \in {"CONNECTING", "OPEN", "CLOSING"}
    /\ client' = HandleReconnect([client EXCEPT !.readyState[s] = "CLOSED",
                                                !.status = "disconnected"])
    /\ UNCHANGED <<storeSide, wsVars, call, stats, logged, viewVars>>

NextClient ==
    \/ ClientConnect
    \/ \E channel \in ClientChannels : ClientSubscribe(channel)
    \/ \E channel \in ClientChannels : ClientUnsubscribe(channel)
    \/ ClientDisconnect
    \/ \E i \in 1..MaxSockets : TimerFires(i)
    \/ \E s \in 1..MaxSockets : SocketOpen(s)
    \/ \E s \in 1..MaxSockets : SocketClose(s)

SpecClient == Init /\ [][NextClient]_vars

(***************************************************************************)
(* The fan-out service: connections, broadcasts and the tasks interleaved. *)
(***************************************************************************)
\* one subscriber connection, to follow its queue from broadcast to frame
StreamConnections == {"c1"}

NextStream ==
    \/ \E c \in StreamConnections : HandleConnectionAsync(c)
    \/ \E channel \in Channels : BroadcastBegin(channel)
    \/ \E c \in StreamConnections : BroadcastWrite(c)
    \/ \E c \in StreamConnections : SenderTake(c)
    \/ \E c \in StreamConnections : SenderCancelled(c)
    \/ \E c \in StreamConnections : SenderCheck(c)
    \/ \E c \in StreamConnections : SenderSend(c)
    \/ \E c \in StreamConnections, type \in {"subscribe", "unsubscribe"},
          channel \in Channels : ReceiveText(c, type, channel)
    \/ \E c \in StreamConnections : SubscriptionHandled(c)
    \/ \E c \in StreamConnections : ReceiveClose(c)
    \/ \E c \in StreamConnections : ReceiveFailed(c)
    \/ \E c \in StreamConnections : ReceiverStopped(c)
    \/ \E c \in StreamConnections : RequestAborted(c)
    \/ \E c \in StreamConnections : HandlerCleanup(c)
    \/ \E c \in StreamConnections : HandlerClose(c)

SpecStream == Init /\ [][NextStream]_vars

\* the sender task of a connection is scheduled as long as it can run
SenderFairness ==
    \A c \in ConnectionIds :
        /\ WF_vars(SenderTake(c))
        /\ WF_vars(SenderCheck(c))
        /\ WF_vars(SenderSend(c))

SpecStreamLive == SpecStream /\ SenderFairness

\* the handler and both tasks of a connection run whenever they can: a
\* cancelled wait returns, a completed WhenAny resumes the handler
ConnectionFairness ==
    \A c \in ConnectionIds :
        /\ WF_vars(SenderCancelled(c))
        /\ WF_vars(SubscriptionHandled(c))
        /\ WF_vars(ReceiverStopped(c))
        /\ WF_vars(HandlerCleanup(c))
        /\ WF_vars(HandlerClose(c))

SpecStreamClose == SpecStream /\ SenderFairness /\ ConnectionFairness

\* two subscriber connections whose writers have not yet run: what the
\* frames of one connection and a broadcast do to the other connection
FanoutConnections == {"c1", "c2"}

NextFanout ==
    \/ \E c \in FanoutConnections : HandleConnectionAsync(c)
    \/ \E c \in FanoutConnections, type \in FrameTypes :
          ReceiveText(c, type, "logs")
    \/ \E c \in FanoutConnections : SubscriptionHandled(c)
    \/ \E channel \in Channels : BroadcastBegin(channel)
    \/ \E c \in FanoutConnections : BroadcastWrite(c)
    \/ \E c \in FanoutConnections : HandlerCleanup(c)
    \/ \E c \in FanoutConnections : HandlerClose(c)

SpecFanout == Init /\ [][NextFanout]_vars

(***************************************************************************)
(* The fan-out registry with its readers: subscription changes, including  *)
(* a channel name the service does not publish, broadcasts and the         *)
(* subscription statistics.                                                *)
(***************************************************************************)
FrameChannels == {"logs", "alerts"}

NextStats ==
    \/ \E c \in StreamConnections : HandleConnectionAsync(c)
    \/ \E c \in StreamConnections, type \in {"subscribe", "unsubscribe"},
          channel \in FrameChannels : ReceiveText(c, type, channel)
    \/ \E c \in StreamConnections : SubscriptionHandled(c)
    \/ BroadcastBegin("logs")
    \/ \E c \in StreamConnections : BroadcastWrite(c)
    \/ GetSubscriptionStats

SpecStats == Init /\ [][NextStats]_vars

(***************************************************************************)
(* The ingestion entry points: OtlpLogsGrpcService.Export,                 *)
(* OtlpMetricsGrpcService.Export, POST /v1/logs (AddLogsJsonAsync) and     *)
(* LogsController.IngestLogs, and, where the order of store and broadcast  *)
(* is examined, OtlpTraceGrpcService.Export and                            *)
(* MetricsController.IngestMetrics.  POST /v1/metrics and /v1/traces have  *)
(* the shape of POST /v1/logs.                                             *)
(* A call walks its batch item by item; AddLog / AddMetric / AddSpan run as *)
(* steps above, so that the calls of several threads interleave.           *)
(***************************************************************************)
MaxBatch == 2

Entries == {"grpcLogs", "grpcMetrics", "httpLogs", "ingestLogs"}

\* the channel an entry point broadcasts on
EntryChannel(entry) ==
    IF entry \in {"grpcMetrics", "ingestMetrics"} THEN "metrics"
    ELSE IF entry = "grpcTraces" THEN "traces"
    ELSE "logs"

\* what the conversion of an item can meet: a valid item, an item whose
\* conversion throws (duplicate attribute keys make ToDictionary throw,
\* part_011 line 97, 108; ParseLogEntry catches and returns null), and for
\* the JSON body an element that makes the enumeration itself throw
ItemKinds(entry) ==
    IF entry = "httpLogs" THEN {"valid", "malformed", "broken"}
    ELSE IF entry \in {"ingestLogs", "ingestMetrics"} THEN {"valid"}
    ELSE {"valid", "malformed"}

\* group: the metric a data point belongs to (one per item elsewhere)
Items(entry) ==
    [kind : ItemKinds(entry), group : IF entry = "grpcMetrics" THEN 1..MaxBatch ELSE {1}]

\* the batches of at most MaxBatch items; the data points of a metric are
\* adjacent
Batches(entry) ==
    {b \in UNION {[1..n -> Items(entry)] : n \in 1..MaxBatch} :
        /\ b[1].group = 1
        /\ \A i \in 1..(Len(b) - 1) : b[i + 1].group \in {b[i].group, b[i].group + 1}}

\* the record converted from item i of the call of thread t; no converter
\* sets Id, which is 0 until the store's copy gets one
ItemRecord(entry, t, i) ==
    IF entry \in {"grpcMetrics", "ingestMetrics"}
    THEN [id |-> 0, name |-> "m1", svc |-> "a", ts |-> 1, msg |-> <<t, i>>]
    ELSE IF entry = "grpcTraces"
    THEN [trace |-> IF i = 1 THEN "t1" ELSE "t2", parent |-> Null, svc |-> "a",
          start |-> 1, dur |-> 1, msg |-> <<t, i>>]
    ELSE [id |-> 0, svc |-> "a", trace |-> Null, level |-> "Info", ts |-> 1,
          msg |-> <<t, i>>]

\* where the loop goes on after the catch block of item i: the metrics
\* handler wraps a whole metric, so the rest of its data points is skipped
AfterCatch(entry, batch, i) ==
    IF entry = "grpcMetrics"
    THEN IF \E j \in (i + 1)..Len(batch) : batch[j].group # batch[i].group
         THEN CHOOSE j \in (i + 1)..Len(batch) :
                 /\ batch[j].group # batch[i].group
                 /\ \A k \in (i + 1)..(j - 1) : batch[k].group = batch[i].group
         ELSE Len(batch) + 1
    ELSE i + 1

NoResponse == [status |-> "none", rejected |-> 0]

\* the call begins: Export(request, context), the POST handler, IngestLogs
Export(t, entry, batch) ==
    /\ call[t].pc = "none"
    /\ pc[t] = "idle"
    /\ call' = [call EXCEPT ![t] =
                   [pc |-> "item", entry |-> entry, batch |-> batch, i |-> 1,
                    accepted |-> 0, rejected |-> 0, stored |-> <<>>, pub |-> <<>>,
                    targets |-> {}, response |-> NoResponse,
                    subscribers |-> {c \in connections :
                                        EntryChannel(entry) \in subscriptions[c]}]]
    /\ UNCHANGED <<storeSide, wsVars, extraVars>>

\* the response of a call that reached the end of its batch:
\* part_011 line 270-277, 519-526, JsonElementExtensions.cs line 112-119
\* (rejected > 0 ? PartialSuccess : null), Program.cs line 223
\* (partialSuccess = null), part_011 line 617, part_012 line 42
Response(c) ==
    IF c.entry \in {"grpcLogs", "grpcMetrics", "grpcTraces"}
    THEN [status |-> "ok", rejected |-> c.rejected]
    ELSE [status |-> "ok", rejected |-> 0]

\* a handler that goes from the conversion straight to BroadcastAsync
ExportConvertThenBroadcast(t) ==
    /\ call[t].pc = "item"
    /\ LET c == call[t]
       IN  IF c.i > Len(c.batch)
           THEN call' = [call EXCEPT ![t].pc = "returned",
                                     ![t].response = Response(c)]
           ELSE IF c.batch[c.i].kind = "valid"
           THEN call' = [call EXCEPT ![t].pc = "broadcast"]
           ELSE call' = [call EXCEPT ![t].rejected = c.rejected + 1,
                                     ![t].i = AfterCatch(c.entry, c.batch, c.i)]
    /\ UNCHANGED <<storeSide, wsVars, extraVars>>

\* the loop reaches item i: the batch is exhausted and the call returns, or
\* the item is converted (ConvertLogRecord, ConvertMetric's iterator,
\* ParseLogEntry).  A malformed item is counted as rejected by the gRPC
\* handlers (part_011 line 246-250) and silently skipped by AddLogsJsonAsync
\* (part_010 line 408-412); a broken element ends AddLogsJsonAsync with an
\* exception and POST /v1/logs answers rejectedLogRecords = 1 (Program.cs
\* line 225-229).
ExportConvert(t) ==
    /\ call[t].pc = "item"
    /\ LET c == call[t]
       IN  IF c.i > Len(c.batch)
           THEN call' = [call EXCEPT ![t].pc = "returned",
                                     ![t].response = Response(c)]
           ELSE IF c.batch[c.i].kind = "valid"
           THEN call' = [call EXCEPT ![t].pc = "store"]
           ELSE IF c.batch[c.i].kind = "broken"
           THEN call' = [call EXCEPT ![t].pc = "returned",
                                     ![t].response = [status |-> "ok", rejected |-> 1]]
           ELSE IF c.entry = "httpLogs"
           THEN call' = [call EXCEPT ![t].i = c.i + 1]
           ELSE call' = [call EXCEPT ![t].rejected = c.rejected + 1,
                                     ![t].i = AfterCatch(c.entry, c.batch, c.i)]
    /\ UNCHANGED <<storeSide, wsVars, extraVars>>

\* _store.AddLog(logEntry) is entered: AddLog line 49-50
ExportAddLog(t) ==
    /\ call[t].pc = "store"
    /\ EntryChannel(call[t].entry) = "logs"
    /\ pc[t] = "idle"
    /\ logIdCounter' = logIdCounter + 1
    /\ loc' = [loc EXCEPT ![t] =
                 [op |-> "AddLog",
                  rec |-> LogWithId(ItemRecord(call[t].entry, t, call[t].i),
                                    logIdCounter + 1)]]
    /\ Goto(t, "log_enqueue")
    /\ call' = [call EXCEPT ![t].pc = "storing"]
    /\ UNCHANGED <<metricIdCounter, logs, metrics, tracesByTraceId, spanLists,
                   logsByService, logsByTraceId, metricsByName, metricsByService,
                   ops, qres>>
    /\ UNCHANGED <<wsVars, extraVars>>

\* _store.AddMetric(entry) is entered: AddMetric line 135-136
ExportAddMetric(t) ==
    /\ call[t].pc = "store"
    /\ EntryChannel(call[t].entry) = "metrics"
    /\ pc[t] = "idle"
    /\ metricIdCounter' = metricIdCounter + 1
    /\ loc' = [loc EXCEPT ![t] =
                 [op |-> "AddMetric",
                  rec |-> MetricWithId(ItemRecord(call[t].entry, t, call[t].i),
                                       metricIdCounter + 1)]]
    /\ Goto(t, "metric_enqueue")
    /\ call' = [call EXCEPT ![t].pc = "storing"]
    /\ UNCHANGED <<logIdCounter, logs, metrics, tracesByTraceId, spanLists,
                   logsByService, logsByTraceId, metricsByName, metricsByService,
                   ops, qres>>
    /\ UNCHANGED <<wsVars, extraVars>>

\* _store.AddSpan(traceSpan) is entered: AddSpan line 193
ExportAddSpan(t) ==
    LET span == ItemRecord(call[t].entry, t, call[t].i)
        got == GetOrAddList(tracesByTraceId, spanLists, span.trace)
    IN  /\ call[t].pc = "store"
        /\ EntryChannel(call[t].entry) = "traces"
        /\ pc[t] = "idle"
        /\ tracesByTraceId' = got.dict
        /\ spanLists' = got.lists
        /\ loc' = [loc EXCEPT ![t] = [op |-> "AddSpan", rec |-> span,
                                      spans |-> got.dict[span.trace],
                                      oldest |-> Null]]
        /\ Goto(t, "span_add")
        /\ call' = [call EXCEPT ![t].pc = "storing"]
        /\ UNCHANGED <<logIdCounter, metricIdCounter, logs, metrics, logsByService,
                       logsByTraceId, metricsByName, metricsByService, ops, qres>>
        /\ UNCHANGED <<wsVars, extraVars>>

\* AddLog / AddMetric / AddSpan returns to the handler.  The gRPC handlers,
\* IngestLogs and IngestMetrics go on to BroadcastAsync (part_011 line 243,
\* 492, 612, JsonElementExtensions.cs line 84, part_012 line 37);
\* AddLogsJsonAsync goes straight to the
\* next record (part_010 line 411-413): it never calls BroadcastAsync.
ExportStored(t) ==
    /\ call[t].pc = "storing"
    /\ pc[t] = "return"
    /\ Goto(t, "idle")
    /\ loc' = [loc EXCEPT ![t] = Idle]
    /\ call' = [call EXCEPT
                   ![t].stored = Append(@, loc[t].rec),
                   ![t].pc = IF call[t].entry = "httpLogs" THEN "item" ELSE "broadcast",
                   ![t].i = IF call[t].entry = "httpLogs" THEN @ + 1 ELSE @]
    /\ UNCHANGED <<storeVars, ops, qres>>
    /\ UNCHANGED <<wsVars, extraVars>>

\* the handler's bookkeeping after BroadcastAsync returned: logCount++
Counted(c) == [c EXCEPT !.accepted = @ + 1, !.i = @ + 1, !.pc = "item", !.targets = {}]

\* BroadcastAsync(channel, record) line 89-104 called by the handler: the
\* connections are listed.  When Contains throws, the gRPC handlers catch
\* it with the item (rejected++), IngestLogs and IngestMetrics let it escape.
ExportBroadcast(t) ==
    /\ call[t].pc = "broadcast"
    /\ LET c == call[t]
           sent == [c EXCEPT !.pub = Append(@, ItemRecord(c.entry, t, c.i))]
       IN  \/ \E targets \in ListedConnections(EntryChannel(c.entry)) :
                call' = [call EXCEPT ![t] =
                            IF targets = {} THEN Counted(sent)
                            ELSE [sent EXCEPT !.pc = "write", !.targets = targets]]
           \/ /\ \E d \in connections : Racing(d)
              /\ call' = [call EXCEPT ![t] =
                            IF c.entry \in {"ingestLogs", "ingestMetrics"}
                            THEN [sent EXCEPT !.pc = "returned",
                                              !.response = [status |-> "error",
                                                            rejected |-> 0]]
                            ELSE [sent EXCEPT !.rejected = @ + 1,
                                              !.i = AfterCatch(c.entry, c.batch, c.i),
                                              !.pc = "item"]]
    /\ UNCHANGED <<storeSide, wsVars, extraVars>>

\* BroadcastAsync line 107-123: TryWrite into the queue of one listed
\* connection; after the last one BroadcastAsync returns to the handler
ExportBroadcastWrite(t, c) ==
    /\ call[t].pc = "write"
    /\ c \in call[t].targets
    /\ LET m == WebSocketMessage(EntryChannel(call[t].entry),
                                 ItemRecord(call[t].entry, t, call[t].i))
           w == TryWrite(queue[c], m)
       IN  /\ queue' = [queue EXCEPT ![c] = w.items]
           /\ enqueued' = [enqueued EXCEPT ![c] = Append(@, m)]
           /\ dropped' = [dropped EXCEPT ![c] = @ \o w.dropped]
           /\ logged' = [logged EXCEPT ![c] = @ \o LogDebugDropped(w)]
    /\ call' = [call EXCEPT ![t] =
                   IF call[t].targets = {c} THEN Counted(call[t])
                   ELSE [call[t] EXCEPT !.targets = @ \ {c}]]
    /\ UNCHANGED <<connections, socket, subscriptions, cancelled, handler, sender,
                   receiver, message, broadcast, published, frames, inbound, faulted>>
    /\ UNCHANGED <<storeSide, client, stats, viewVars>>

\* the call under study takes any entry point and batch; the calls that
\* interleave with it are gRPC log exports of one record.  One metrics call
\* of at most MaxBatch samples never exceeds _maxMetrics, so the metric
\* trim never dequeues here.
OtherBatches == {b \in Batches("grpcLogs") : Len(b) = 1 /\ b[1].kind = "valid"}

NextIngest ==
    \/ \E entry \in Entries : \E batch \in Batches(entry) : Export(1, entry, batch)
    \/ \E t \in Threads \ {1}, batch \in OtherBatches : Export(t, "grpcLogs", batch)
    \/ \E t \in Threads : ExportConvert(t)
    \/ \E t \in Threads : ExportAddLog(t)
    \/ \E t \in Threads : ExportAddMetric(t)
    \/ \E t \in Threads : ExportStored(t)
    \/ \E t \in Threads : ExportBroadcast(t)
    \/ \E t \in Threads, c \in StreamConnections : ExportBroadcastWrite(t, c)
    \/ \E t \in Threads : LogEnqueue(t)
    \/ \E t \in Threads : LogServiceGet(t)
    \/ \E t \in Threads : LogServiceEnqueue(t)
    \/ \E t \in Threads : LogTrimCount(t)
    \/ \E t \in Threads : LogTrimDequeue(t)
    \/ \E t \in Threads : MetricEnqueue(t)
    \/ \E t \in Threads : MetricNameGet(t)
    \/ \E t \in Threads : MetricNameEnqueue(t)
    \/ \E t \in Threads : MetricServiceGet(t)
    \/ \E t \in Threads : MetricServiceEnqueue(t)
    \/ \E t \in Threads : MetricTrimCount(t)
    \/ \E c \in StreamConnections : HandleConnectionAsync(c)
    \/ \E c \in StreamConnections : ReceiveText(c, "subscribe", "logs")
    \/ \E c \in StreamConnections : SubscriptionHandled(c)

SpecIngest == Init /\ [][NextIngest]_vars

\* the handlers whose order of store and broadcast is examined: thread 1
\* runs OtlpTraceGrpcService.Export or MetricsController.IngestMetrics on
\* any batch, the other threads a gRPC log export of one record
OrderEntries == {"grpcTraces", "ingestMetrics"}

OrderChannels == {"logs", "metrics", "traces"}

NextOrder ==
    \/ \E entry \in OrderEntries : \E batch \in Batches(entry) : Export(1, entry, batch)
    \/ \E t \in Threads \ {1}, batch \in OtherBatches : Export(t, "grpcLogs", batch)
    \/ \E t \in Threads : ExportConvert(t)
    \/ \E t \in Threads : ExportAddLog(t)
    \/ \E t \in Threads : ExportAddMetric(t)
    \/ \E t \in Threads : ExportAddSpan(t)
    \/ \E t \in Threads : ExportStored(t)
    \/ \E t \in Threads : ExportBroadcast(t)
    \/ \E t \in Threads, c \in StreamConnections : ExportBroadcastWrite(t, c)
    \/ \E t \in Threads : LogEnqueue(t)
    \/ \E t \in Threads : LogServiceGet(t)
    \/ \E t \in Threads : LogServiceEnqueue(t)
    \/ \E t \in Threads : LogTrimCount(t)
    \/ \E t \in Threads : MetricEnqueue(t)
    \/ \E t \in Threads : MetricNameGet(t)
    \/ \E t \in Threads : MetricNameEnqueue(t)
    \/ \E t \in Threads : MetricServiceGet(t)
    \/ \E t \in Threads : MetricServiceEnqueue(t)
    \/ \E t \in Threads : MetricTrimCount(t)
    \/ \E t \in Threads : SpanListAdd(t)
    \/ \E t \in Threads : SpanTrimCount(t)
    \/ \E c \in StreamConnections : HandleConnectionAsync(c)
    \/ \E c \in StreamConnections, channel \in OrderChannels :
          ReceiveText(c, "subscribe", channel)
    \/ \E c \in StreamConnections : SubscriptionHandled(c)

SpecOrder == Init /\ [][NextOrder]_vars

(***************************************************************************)
(* Claims about the store.                                                 *)
(***************************************************************************)
\* the ids of q are exactly the last Min(n, cap) of 1..n, oldest first
LastInserted(q, n, cap) ==
    /\ Len(q) = Min(n, cap)
    /\ \A i \in 1..Len(q) : q[i].id = n - Len(q) + i

C2_NeverOverCapacity ==
    /\ GetStatsResult.LogCount <= MaxLogs
    /\ GetStatsResult.MetricCount <= MaxMetrics
    /\ GetStatsResult.TraceCount <= MaxTraces

AllReturned == \A t \in Threads : pc[t] = "idle"

\* C3: once all concurrent AddLog (AddMetric) calls have returned, the primary
\* collection holds exactly min(n, capacity) entries, n the number inserted.
C3_ExactlyMinAfterConcurrentAdds ==
    AllReturned =>
        /\ Len(logs) = Min(logIdCounter, MaxLogs)
        /\ Len(metrics) = Min(metricIdCounter, MaxMetrics)

\* what C4 promises of thread t's record at the moment its Add returns
ReadYourWrite(t) ==
    LET r == loc[t].rec
    IN  /\ loc[t].op = "AddLog" =>
              /\ r \in Range(logs)
              /\ r.svc \in DOMAIN logsByService /\ r \in Range(logsByService[r.svc])
              /\ r.trace # Null =>
                    /\ r.trace \in DOMAIN logsByTraceId
                    /\ r \in Range(logsByTraceId[r.trace])
              /\ r \in Range(QueryLogsResult(r.svc, Null, NoTime, NoTime, Null,
                                             logIdCounter))
        /\ loc[t].op = "AddMetric" =>
              /\ r \in Range(metrics)
              /\ r.name \in DOMAIN metricsByName /\ r \in Range(metricsByName[r.name])
              /\ r.svc \in DOMAIN metricsByService
              /\ r \in Range(metricsByService[r.svc])
              /\ r \in Range(QueryMetricsResult(r.name, Null, NoTime, NoTime,
                                                metricIdCounter))

\* C4: at the moment AddLog(r) / AddMetric(m) returns, the record is in the
\* primary collection and in its indexes, and a query by its key returns it.
C4_ReadYourWrite ==
    [][\A t \in Threads :
          (pc[t] # "return" /\ pc'[t] = "return") => ReadYourWrite(t)']_vars

\* C5: every record QueryLogs or QueryMetrics returns is present in the
\* primary collection at the time of the query.
C5_NoStaleResult ==
    /\ qres.op = "QueryLogs" => \A i \in 1..Len(qres.out) : qres.out[i] \in Range(logs)
    /\ qres.op = "QueryMetrics" =>
          \A i \in 1..Len(qres.out) : qres.out[i] \in Range(metrics)

\* C6: every record QueryLogs returns satisfies every supplied filter, and a
\* supplied traceId or serviceName without an index entry gives no result.
C6_LogsMatchAllFilters ==
    qres.op = "QueryLogs" =>
        /\ \A i \in 1..Len(qres.out) :
              LET r == qres.out[i]
              IN  /\ qres.svc # Null => r.svc = qres.svc
                  /\ qres.trace # Null => r.trace = qres.trace
                  /\ qres.level # Null => r.level = qres.level
                  /\ qres.start # NoTime => r.ts >= qres.start
                  /\ qres.end # NoTime => r.ts <= qres.end
        /\ (qres.trace # Null /\ qres.trace \notin DOMAIN logsByTraceId) => qres.out = <<>>
        /\ (qres.svc # Null /\ qres.svc \notin DOMAIN logsByService) => qres.out = <<>>

\* keys non-increasing along s
Descending(s) == \A i \in 1..(Len(s) - 1) : SortKey(s[i]) >= SortKey(s[i + 1])

\* C7: QueryMetrics(name = n) returns only samples named n, newest first,
\* and only samples of the supplied service when one is supplied.
C7_MetricsByName ==
    (qres.op = "QueryMetrics" /\ qres.name # Null) =>
        /\ \A i \in 1..Len(qres.out) :
              /\ qres.out[i].name = qres.name
              /\ qres.svc # Null => qres.out[i].svc = qres.svc
        /\ Descending(qres.out)

\* the stored records a query asks for
MatchingLogs ==
    {l \in Range(logs) :
        /\ qres.svc # Null => l.svc = qres.svc
        /\ qres.trace # Null => l.trace = qres.trace
        /\ LogPasses(l, qres.level, qres.start, qres.end)}

MatchingMetrics ==
    {m \in Range(metrics) :
        /\ qres.name # Null => m.name = qres.name
        /\ qres.svc # Null => m.svc = qres.svc
        /\ MetricPasses(m, qres.start, qres.end)}

MatchingTraces ==
    {[traceId |-> k, root |-> RootSpan(spanLists[tracesByTraceId[k]])] :
        k \in {x \in DOMAIN tracesByTraceId :
                 /\ spanLists[tracesByTraceId[x]] # <<>>
                 /\ RootPasses(RootSpan(spanLists[tracesByTraceId[x]]), qres.svc,
                               qres.minDur, qres.start, qres.end)}}

\* out has at most limit entries, newest first, and no matching record that
\* is left out is newer than one that is returned
NewestFirst(out, limit, matching) ==
    /\ Len(out) <= limit
    /\ Descending(out)
    /\ \A m \in matching \ Range(out) :
          \A i \in 1..Len(out) : SortKey(m) <= SortKey(out[i])

\* C8: QueryLogs, QueryMetrics and QueryTraces return at most limit results,
\* newest first, and the results are the newest matching records.
C8_NewestWithinLimit ==
    /\ qres.op = "QueryLogs" => NewestFirst(qres.out, qres.limit, MatchingLogs)
    /\ qres.op = "QueryMetrics" => NewestFirst(qres.out, qres.limit, MatchingMetrics)
    /\ qres.op = "QueryTraces" => NewestFirst(qres.out, qres.limit, MatchingTraces)

(***************************************************************************)
(* Claims about the fan-out service.                                       *)
(***************************************************************************)
\* s is the last Len(s) items of t
IsSuffix(s, t) ==
    /\ Len(s) <= Len(t)
    /\ \A i \in 1..Len(s) : s[i] = t[Len(t) - Len(s) + i]

\* the number of times x occurs in s
Occurrences(s, x) == Cardinality({i \in 1..Len(s) : s[i] = x})

\* the queue of c just took the message being broadcast
Written(c) == enqueued'[c] # enqueued[c]

\* C9: every connection's outgoing queue holds at most its capacity; a
\* broadcast that finds the queue full removes the oldest queued message and
\* appends the new one; the broadcaster never waits for a consumer (the write
\* to each listed connection can always proceed).
C9_BoundedDropOldest ==
    /\ [](\A c \in ConnectionIds :
            /\ Len(queue[c]) <= QueueCapacity
            /\ IsSuffix(queue[c], enqueued[c])
            /\ broadcast.active /\ c \in broadcast.targets => ENABLED BroadcastWrite(c))
    /\ [][\A c \in ConnectionIds :
            Written(c) =>
                /\ Len(queue[c]) = QueueCapacity =>
                      /\ queue'[c] = Append(Tail(queue[c]), broadcast.message)
                      /\ dropped'[c] = Append(dropped[c], Head(queue[c]))
                /\ Len(queue[c]) < QueueCapacity =>
                      /\ queue'[c] = Append(queue[c], broadcast.message)
                      /\ dropped'[c] = dropped[c]]_vars

\* a broadcast found the queue of a connection full and dropped its oldest
C9_Witness ==
    \E c \in ConnectionIds :
        /\ dropped[c] # <<>>
        /\ Len(queue[c]) = QueueCapacity
        /\ dropped[c][1] = enqueued[c][1]

\* the connection is open and nothing has cancelled it
StaysOpen(c) == socket[c] = "Open" /\ ~cancelled[c]

\* C10: on a connection that stays open every record enqueued to it is
\* eventually sent unless the full queue dropped it, and no record is sent
\* twice; a drop happens only on a full queue, takes the oldest unsent
\* message and keeps the newest.
C10_DeliveredOnceOrDroppedOldest ==
    /\ [](\A c \in ConnectionIds :
            /\ \A m \in Messages : Occurrences(frames[c], m) <= 1
            /\ \A i \in 1..Len(frames[c]) :
                  /\ Occurrences(enqueued[c], frames[c][i]) = 1
                  /\ Occurrences(dropped[c], frames[c][i]) = 0
            /\ Len(enqueued[c]) <= QueueCapacity => dropped[c] = <<>>)
    /\ [][\A c \in ConnectionIds :
            dropped'[c] # dropped[c] =>
                /\ Len(queue[c]) = QueueCapacity
                /\ dropped'[c] = Append(dropped[c], Head(queue[c]))
                /\ queue'[c][Len(queue'[c])] = broadcast.message]_vars
    /\ \A c \in ConnectionIds : \A m \in Messages :
          (m \in Range(queue[c]))
             ~> (m \in Range(frames[c]) \/ m \in Range(dropped[c]) \/ ~StaysOpen(c))

\* a connection has been sent two frames in order after its queue dropped one
C10_Witness ==
    \E c \in ConnectionIds :
        /\ StaysOpen(c)
        /\ Len(frames[c]) >= 2
        /\ dropped[c] # <<>>

RECURSIVE IsSubsequence(_, _)
\* s can be obtained from t by deleting elements
IsSubsequence(s, t) ==
    IF s = <<>> THEN TRUE
    ELSE IF t = <<>> THEN FALSE
    ELSE IF Head(s) = Head(t) THEN IsSubsequence(Tail(s), Tail(t))
    ELSE IsSubsequence(s, Tail(t))

\* s without the elements of d
Without(s, d) == SelectSeq(s, LAMBDA x : x \notin Range(d))

\* the message the sender holds between taking it and sending it
InFlight(c) == IF message[c] = NoMessage THEN <<>> ELSE <<message[c]>>

\* C11: the frames sent on a connection are a subsequence of the records
\* enqueued to its queue, so two delivered records are delivered in the order
\* they were enqueued; on a connection that stays open the only enqueued
\* records that are neither sent nor still waiting are those the full queue
\* dropped as oldest.
C11_FramesSubsequenceOfEnqueued ==
    \A c \in ConnectionIds :
        /\ IsSubsequence(frames[c], enqueued[c])
        /\ StaysOpen(c) =>
              Without(enqueued[c], dropped[c]) = frames[c] \o InFlight(c) \o queue[c]

\* the queue dropped its first record and the next two were sent in order
C11_Witness ==
    \E c \in ConnectionIds :
        /\ Len(enqueued[c]) = 3
        /\ dropped[c] = <<enqueued[c][1]>>
        /\ frames[c] = <<enqueued[c][2], enqueued[c][3]>>

\* C14: once the reader or the writer of a connection has ended, eventually
\* the connection's cancellation is set and the other activity has stopped
\* too, the socket is not open, the connection is out of the registry and
\* HandleConnectionAsync has returned.
C14_EndedConnectionCleanedUp ==
    \A c \in ConnectionIds :
        (sender[c] = "done" \/ receiver[c] = "done")
           ~> (/\ cancelled[c]
               /\ sender[c] = "done"
               /\ receiver[c] = "done"
               /\ socket[c] # "Open"
               /\ c \notin connections
               /\ handler[c] = "ended")

\* the peer vanished, the reader failed, and the handler has returned with
\* the writer stopped and the connection unregistered
C14_Witness ==
    \E c \in ConnectionIds :
        /\ socket[c] = "Aborted"
        /\ handler[c] = "ended"
        /\ sender[c] = "done"
        /\ cancelled[c]
        /\ c \notin connections

\* the receiver of c finishes handling a text frame that is not a subscribe
\* or unsubscribe message
MalformedHandled(c) ==
    /\ receiver[c] = "handle"
    /\ inbound[c].type \notin {"subscribe", "unsubscribe"}
    /\ receiver'[c] # "handle"

\* everything the fan-out keeps about connection d is as before
ConnectionUntouched(d) ==
    /\ (d \in connections') = (d \in connections)
    /\ subscriptions'[d] = subscriptions[d]
    /\ queue'[d] = queue[d]
    /\ socket'[d] = socket[d]
    /\ cancelled'[d] = cancelled[d]

Listing == published' = published + 1

\* C16: a subscribed connection that is slow (queue full), closed or failing
\* never keeps a broadcast from the other subscribed open connections and
\* never makes it return an error: with no subscription set under mutation
\* the list holds every subscribed open connection, the write to a listed
\* connection can always proceed and touches no other queue and no other
\* pending write, and a broadcast throws only when the list was built while a
\* subscription set was being mutated.
C16_SlowOrBrokenSubscriberIsolated ==
    /\ [](\A c \in ConnectionIds :
            broadcast.active /\ c \in broadcast.targets => ENABLED BroadcastWrite(c))
    /\ [][/\ faulted' # faulted => \E c \in connections : Racing(c)
          /\ Listing /\ ~(\E c \in connections : Racing(c)) =>
                \A channel \in Channels :
                    BroadcastBegin(channel) =>
                        /\ SubscribedConnections(channel) # {} =>
                              /\ broadcast'.active
                              /\ broadcast'.targets = SubscribedConnections(channel)
                        /\ SubscribedConnections(channel) = {} => ~broadcast'.active
          /\ \A c \in ConnectionIds :
                Written(c) =>
                    /\ \A d \in broadcast.targets \ {c} :
                          /\ broadcast'.active
                          /\ d \in broadcast'.targets
                    /\ \A d \in ConnectionIds \ {c} : queue'[d] = queue[d]]_vars

\* one connection's queue is full and has dropped, and the record that made
\* it drop also reached the other connection
C16_Witness ==
    \E c \in ConnectionIds : \E d \in ConnectionIds \ {c} :
        /\ Len(queue[c]) = QueueCapacity
        /\ dropped[c] # <<>>
        /\ queue[d] # <<>>
        /\ queue[d][Len(queue[d])] = queue[c][Len(queue[c])]

\* C17: a broadcast to a channel that no registered connection is subscribed
\* to (nor is subscribing to at that moment) completes without error and
\* changes no queue, subscription set or registry membership.
C17_NoSubscriberNoOp ==
    [][\A channel \in Channels :
          /\ BroadcastBegin(channel)
          /\ \A c \in connections :
                /\ channel \notin subscriptions[c]
                /\ channel \notin HandleSubscriptionMessage(subscriptions[c],
                                       inbound[c].type, inbound[c].channel)
          => /\ faulted' = faulted
             /\ ~broadcast'.active
             /\ queue' = queue
             /\ subscriptions' = subscriptions
             /\ connections' = connections]_vars

\* the ingestion call of thread t has returned to its caller
Returned(t) == call[t].pc = "returned"

\* the batch positions of the items whose records the call of t stored
StoredPositions(t) == {call[t].stored[k].msg[2] : k \in 1..Len(call[t].stored)}

\* the positions of the valid items of a batch
ValidPositions(batch) == {i \in 1..Len(batch) : batch[i].kind = "valid"}

\* the data frame BroadcastAsync builds for item i of the call of t
FrameOf(t, i) ==
    WebSocketMessage(EntryChannel(call[t].entry), ItemRecord(call[t].entry, t, i))

\* C12: a broadcast lists exactly the registered connections whose
\* subscription set contains the channel and enqueues the record once into
\* each of them and into no other queue; a connection that subscribed to the
\* channel before an ingestion call began (and never unsubscribed) has, when
\* the call returns, exactly one data frame enqueued for each record the
\* call stored.
C12_BroadcastReachesSubscribers ==
    [][\A t \in Threads :
          /\ call[t].pc = "broadcast" /\ call'[t] # call[t] =>
                LET subscribed == {c \in connections :
                                      EntryChannel(call[t].entry) \in subscriptions[c]}
                IN  /\ call'[t].rejected = call[t].rejected
                    /\ call'[t].response.status # "error"
                    /\ IF subscribed = {}
                       THEN call'[t].pc = "item"
                       ELSE call'[t].pc = "write" /\ call'[t].targets = subscribed
          /\ call[t].pc = "write" /\ call'[t] # call[t] =>
                \E c \in call[t].targets :
                    /\ enqueued'[c] = Append(enqueued[c], FrameOf(t, call[t].i))
                    /\ \A d \in ConnectionIds \ {c} : enqueued'[d] = enqueued[d]
          /\ call[t].pc # "returned" /\ call'[t].pc = "returned" =>
                \A c \in call'[t].subscribers : \A i \in StoredPositions(t)' :
                    Occurrences(enqueued'[c], FrameOf(t, i)') = 1]_vars

\* C13: when an ingestion call returns, every record it stored has been
\* handed to BroadcastAsync exactly once, on the channel of its record type.
C13_StoredPublishedOnce ==
    \A t \in Threads :
        Returned(t) =>
            \A i \in StoredPositions(t) :
                Cardinality({j \in 1..Len(call[t].pub) :
                                call[t].pub[j] = ItemRecord(call[t].entry, t, i)}) = 1

\* C18: a gRPC export of n items of which k are malformed reports n-k
\* accepted and k rejected, has stored every valid item whatever its
\* position, and counts an item as accepted exactly when it stored it.
C18_PartialSuccessCounts ==
    \A t \in Threads :
        Returned(t) /\ call[t].entry \in {"grpcLogs", "grpcMetrics"} =>
            LET valid == ValidPositions(call[t].batch)
            IN  /\ call[t].accepted = Cardinality(valid)
                /\ call[t].rejected = Len(call[t].batch) - Cardinality(valid)
                /\ call[t].response.rejected = call[t].rejected
                /\ StoredPositions(t) = valid
                /\ call[t].accepted = Len(call[t].stored)

\* the positions before the first element on which the enumeration throws
BeforeBroken(batch) ==
    {i \in 1..Len(batch) : \A j \in 1..i : batch[j].kind # "broken"}

\* C19: POST /v1/logs answers partialSuccess = null exactly when every item
\* of the batch was stored; otherwise the rejection count it answers is the
\* number of items that were not stored, and the items stored before the
\* failure are still counted as stored.
C19_HttpPartialSuccess ==
    \A t \in Threads :
        Returned(t) /\ call[t].entry = "httpLogs" =>
            LET n == Len(call[t].batch)
            IN  /\ call[t].response.status = "ok"
                /\ (call[t].response.rejected = 0) <=> (Len(call[t].stored) = n)
                /\ call[t].response.rejected # 0 =>
                      call[t].response.rejected = n - Len(call[t].stored)
                /\ StoredPositions(t) =
                      ValidPositions(call[t].batch) \cap BeforeBroken(call[t].batch)

\* the records of s that the call of thread t produced
OfCall(t, s) == SelectSeq(s, LAMBDA r : r.msg[1] = t)

\* the batch positions of the records of s are strictly increasing
InBatchOrder(s) ==
    \A i, j \in 1..Len(s) : i < j => s[i].msg[2] < s[j].msg[2]

\* the identifiers of the records of s are strictly increasing
IdsIncrease(s) == \A i, j \in 1..Len(s) : i < j => s[i].id < s[j].id

\* the payloads of a sequence of data frames
Payloads(s) == [k \in 1..Len(s) |-> s[k].payload]

\* C20: whatever other ingestion calls interleave, the records of one call
\* lie in the primary collection in batch order, were given increasing
\* identifiers in that order, and were enqueued to each connection's queue
\* in that order.
C20_CallKeepsBatchOrder ==
    \A t \in Threads :
        /\ InBatchOrder(OfCall(t, logs)) /\ IdsIncrease(OfCall(t, logs))
        /\ InBatchOrder(OfCall(t, metrics)) /\ IdsIncrease(OfCall(t, metrics))
        /\ call[t].pc # "none" =>
              InBatchOrder(call[t].stored) /\ IdsIncrease(call[t].stored)
        /\ \A c \in ConnectionIds :
              /\ InBatchOrder(OfCall(t, Payloads(enqueued[c])))
              /\ InBatchOrder(OfCall(t, Payloads(queue[c])))

\* a call of two records with another call's record stored and enqueued
\* between them: identifiers 1 and 3, frames first, other, second
C20_Witness ==
    \E t \in Threads : \E c \in ConnectionIds :
        /\ Returned(t)
        /\ Len(call[t].stored) = 2
        /\ call[t].stored[1].id + 2 = call[t].stored[2].id
        /\ Len(enqueued[c]) = 3
        /\ enqueued[c][1] = FrameOf(t, 1)
        /\ enqueued[c][3] = FrameOf(t, 2)
        /\ Len(logs) = MaxLogs

(***************************************************************************)
(* Traces: capacity and eviction, calls executed one after another.        *)
(***************************************************************************)
\* the start times of the spans of the traces the dictionary holds
RetainedStarts(dict, lists) == {p[2] : p \in SpanStarts(dict, lists)}

\* trace k of the dictionary holds a span whose start time is the minimum
\* over the spans of all its traces
HoldsEarliestSpan(dict, lists, k) ==
    \E i \in 1..Len(lists[dict[k]]) :
        \A s \in RetainedStarts(dict, lists) : lists[dict[k]][i].start <= s

\* the dictionary an AddSpan step trims: the one before, with the span's trace
AddSpanStep == ops' = ops + 1 /\ qres'.op = "AddSpan"

BeforeTrim == GetOrAddList(tracesByTraceId, spanLists, qres'.rec.trace).dict

\* C21: after every AddSpan call (calls one after another) at most MaxTraces
\* traces are stored, and each trace the call evicted held, when it was
\* evicted, a span of the minimum start time among the retained spans, the
\* new span's own trace included; an evicted trace is gone as a whole.
C21_TraceCapacityEvictsOldestStart ==
    [][AddSpanStep =>
          /\ Cardinality(DOMAIN tracesByTraceId') <= MaxTraces
          /\ DOMAIN tracesByTraceId' \subseteq DOMAIN BeforeTrim
          /\ \A k \in DOMAIN BeforeTrim \ DOMAIN tracesByTraceId' :
                /\ HoldsEarliestSpan(BeforeTrim, spanLists', k)
                /\ DOMAIN BeforeTrim \ DOMAIN tracesByTraceId' = {k}
                /\ GetTraceResult(k)' = NotFound
          /\ \A k \in DOMAIN tracesByTraceId' :
                tracesByTraceId'[k] = BeforeTrim[k]]_vars

\* the store is full and the call's own trace, holding the oldest span, was
\* the one evicted
C21_Witness ==
    /\ qres.op = "AddSpan"
    /\ qres.rec.trace \notin DOMAIN tracesByTraceId
    /\ Cardinality(DOMAIN tracesByTraceId) = MaxTraces
    /\ \A s \in RetainedStarts(tracesByTraceId, spanLists) : qres.rec.start < s

(***************************************************************************)
(* Traces: concurrent AddSpan calls.                                       *)
(***************************************************************************)
\* the list object ref is the value of some key of _tracesByTraceId
InStore(ref) == \E k \in DOMAIN tracesByTraceId : tracesByTraceId[k] = ref

\* thread t executes spans.Add(span) in this step
InsertsSpan(t) == pc[t] = "span_add" /\ pc'[t] = "span_trim"

\* thread t's AddSpan call returns in this step
AddSpanReturns(t) == pc[t] = "return" /\ pc'[t] = "idle" /\ loc[t].op = "AddSpan"

SpansOf(out) == IF out.found THEN out.spans ELSE <<>>

SameElements(s, t) ==
    \A x \in Range(s) \cup Range(t) : Occurrences(s, x) = Occurrences(t, x)

NonDecreasingStart(s) ==
    \A i, j \in 1..Len(s) : i < j => s[i].start <= s[j].start

\* some span of a trace the store holds carries trace id id
RetainsSpanOf(id) ==
    \E k \in DOMAIN tracesByTraceId :
        \E i \in 1..Len(spanLists[tracesByTraceId[k]]) :
            spanLists[tracesByTraceId[k]][i].trace = id

GetTraceStep == ops' = ops + 1 /\ qres'.op = "GetTrace"

\* C23: what GetTrace(id) returns starts empty, gains exactly the span of
\* every AddSpan with trace id id, loses spans only when the trace is
\* evicted (then all of them), and is otherwise unchanged; the spans come in
\* non-decreasing start-time order, each with the parent id it was added
\* with, and the answer is not-found exactly when no retained span carries
\* the trace id.
C23_GetTraceReturnsRetainedSpans ==
    [][/\ AddSpanStep =>
             \A id \in TraceIds :
                 IF id \in DOMAIN tracesByTraceId'
                 THEN SameElements(SpansOf(GetTraceResult(id))',
                                   IF id = qres'.rec.trace
                                   THEN Append(SpansOf(GetTraceResult(id)), qres'.rec)
                                   ELSE SpansOf(GetTraceResult(id)))
                 ELSE GetTraceResult(id)' = NotFound
       /\ GetTraceStep =>
             /\ qres'.out = GetTraceResult(qres'.trace)
             /\ NonDecreasingStart(SpansOf(qres'.out))
             /\ \A i \in 1..Len(SpansOf(qres'.out)) :
                   SpansOf(qres'.out)[i].trace = qres'.trace
             /\ SameElements(SpansOf(qres'.out),
                             IF qres'.trace \in DOMAIN tracesByTraceId
                             THEN spanLists[tracesByTraceId[qres'.trace]] ELSE <<>>)
             /\ (qres'.out = NotFound) <=> ~RetainsSpanOf(qres'.trace)
             /\ (TracesControllerGetTrace(qres'.out).status = 404)
                    <=> ~RetainsSpanOf(qres'.trace)]_vars

\* a child span added before its root, the root starting earlier: the
\* fetch returns both, the earlier start first, the root being
\* the one without a parent
C23_Witness ==
    /\ qres.op = "GetTrace"
    /\ qres.out.found
    /\ Len(qres.out.spans) = 2
    /\ qres.out.spans[1].parent = Null
    /\ qres.out.spans[2].parent # Null
    /\ qres.out.spans[1].start < qres.out.spans[2].start
    /\ spanLists[tracesByTraceId[qres.trace]][1] = qres.out.spans[2]
    /\ TracesControllerGetTrace(qres.out).spanCount = 2

(***************************************************************************)
(* Identifiers: lowercase hex on both transports.                          *)
(***************************************************************************)
IsLowerHex(s) == \A i \in DOMAIN s : \E n \in DOMAIN HexLower : HexLower[n] = s[i]

\* the spans of the traces the store holds
StoredSpans ==
    UNION {Range(spanLists[tracesByTraceId[k]]) : k \in DOMAIN tracesByTraceId}

\* C24: every trace id and span id of a stored span, and every key of the
\* trace dictionary, is lowercase hex, whether it came as bytes over gRPC or
\* as a hex string over HTTP/JSON, so a trace is found by its lowercase id.
C24_IdsAreLowercaseHex ==
    /\ \A s \in StoredSpans : IsLowerHex(s.trace) /\ IsLowerHex(s.id)
    /\ \A k \in DOMAIN tracesByTraceId : IsLowerHex(k)

(***************************************************************************)
(* Severity: one mapping on both transports.                               *)
(***************************************************************************)
\* the level the OTLP ranges fix for severity numbers 1 to 24
LevelOfRange(n) ==
    CASE n \in 1..8 -> "Debug"
      [] n \in 9..12 -> "Info"
      [] n \in 13..16 -> "Warn"
      [] n \in 17..20 -> "Error"
      [] n \in 21..24 -> "Fatal"

\* every log record the store holds, in the collection or in an index
HeldLogs ==
    Range(logs) \cup UNION {Range(logsByService[k]) : k \in DOMAIN logsByService}

\* C25: a stored log's level is the one its severity number's range fixes
\* (1-8 Debug, 9-12 Info, 13-16 Warn, 17-20 Error, 21-24 Fatal), and it is
\* the level both adapters' mappings give that number, 0 and out-of-range
\* numbers included; a stored log of severity 17 and service s is returned
\* with level Error by a query on service s that its limit did not cut.
C25_SeverityMapsToLevel ==
    /\ \A l \in HeldLogs :
          /\ l.sev \in 1..24 => l.level = LevelOfRange(l.sev)
          /\ l.level = MapSeverity(l.sev)
          /\ l.level = MapSeverityNumber(l.sev)
    /\ \A n \in Severities : MapSeverity(n) = MapSeverityNumber(n)
    /\ qres.op = "QueryLogs" /\ Len(qres.out) < qres.limit =>
          \A i \in 1..Len(logs) :
              logs[i].svc = qres.svc /\ logs[i].sev = 17 =>
                  \E j \in 1..Len(qres.out) :
                      qres.out[j] = logs[i] /\ qres.out[j].level = "Error"

\* logs of severity 17 sent over each transport, then a query on their
\* service that returns one of them with level Error
C25_Witness ==
    /\ qres.op = "QueryLogs"
    /\ qres.svc = "checkout"
    /\ Len(qres.out) = 2
    /\ \A j \in 1..2 : qres.out[j].sev = 17 /\ qres.out[j].level = "Error"
    /\ \E i \in 1..Len(logs) : logs[i] = qres.out[1]

(***************************************************************************)
(* The dashboard client: reconnection and resubscription.                  *)
(***************************************************************************)
\* WebSocket s closes / opens in this step
Closes(s) == client.readyState[s] # "CLOSED" /\ client'.readyState[s] = "CLOSED"

Opens(s) == client.readyState[s] = "CONNECTING" /\ client'.readyState[s] = "OPEN"

\* the frames sent on WebSocket s in this step
SentNow(s) ==
    {client'.sent[s][i] : i \in (Len(client.sent[s]) + 1)..Len(client'.sent[s])}

\* C26: when a connection closes the client sets a timer to reconnect, with
\* a delay that grows with every consecutive failed attempt, unless
\* MaxReconnectAttempts attempts have failed in a row; when a connection
\* opens it resets the attempt counter and sends on it a subscribe frame for
\* every channel then in its subscription set.
C26_ClientReconnectsAndResubscribes ==
    [][\A s \in 1..Len(client.readyState) :
          /\ Closes(s) =>
                IF client.reconnectAttempts < MaxReconnectAttempts
                THEN /\ client'.reconnectAttempts = client.reconnectAttempts + 1
                     /\ Len(client'.timers) = Len(client.timers) + 1
                     /\ client'.timers[Len(client'.timers)] =
                            ReconnectDelay(client'.reconnectAttempts)
                     /\ client.reconnectAttempts > 0 =>
                            ReconnectDelay(client'.reconnectAttempts) >
                            ReconnectDelay(client.reconnectAttempts)
                ELSE client'.timers = client.timers
          /\ client'.reconnectAttempts <= MaxReconnectAttempts
          /\ Opens(s) =>
                /\ client'.reconnectAttempts = 0
                /\ \A channel \in client'.subscriptions :
                      <<"subscribe", channel>> \in SentNow(s)]_vars

(***************************************************************************)
(* Data frames and the store's identifiers.                                *)
(***************************************************************************)
\* the records the store holds or held that came from the same item as p
StoredAs(p) ==
    {r \in UNION {Range(call[t].stored) : t \in {u \in Threads : call[u].pc # "none"}} :
        r.msg = p.msg}

\* C28: the record in a data frame for a stored log or metric carries the
\* identifier that AddLog or AddMetric assigned to the stored record.
C28_FrameCarriesStoredId ==
    \A c \in ConnectionIds :
        \A k \in 1..Len(enqueued[c]) :
            \A r \in StoredAs(enqueued[c][k].payload) :
                enqueued[c][k].payload.id = r.id

(***************************************************************************)
(* The subscription sets: synchronization and contents.                    *)
(***************************************************************************)
\* this step is the read of the subscription sets by BroadcastAsync (line
\* 98-101) or by GetSubscriptionStats (line 244-250)
ReadsSubscriptions == published' # published \/ stats'.n # stats.n

\* C27: no BroadcastAsync and no GetSubscriptionStats reads the
\* subscription set of a registered connection while that connection's
\* reader is inside the Add or Remove that changes it.
C27_SubscriptionSetSynchronized ==
    [][\A c \in connections : Racing(c) => ~ReadsSubscriptions]_vars

\* the channels the fan-out service publishes
KnownChannels == {"logs", "traces", "metrics"}

\* C30: every connection's subscription set holds only logs, traces and
\* metrics, and so do the keys of the per-channel subscriber counts.
C30_OnlyKnownChannels ==
    /\ \A c \in ConnectionIds : subscriptions[c] \subseteq KnownChannels
    /\ stats.op = "GetSubscriptionStats" /\ ~stats.threw =>
          DOMAIN stats.out \subseteq KnownChannels

(***************************************************************************)
(* Backpressure: the log of dropped messages.                              *)
(***************************************************************************)
\* C29: for every message a connection's full queue dropped, BroadcastAsync
\* logged a drop for that connection.
C29_DropIsLogged ==
    \A c \in ConnectionIds : Len(logged[c]) >= Len(dropped[c])

(***************************************************************************)
(* RingBuffer (ring-buffer.ts): the dashboard's fixed-capacity buffer.     *)
(* buffer is indexed 0..capacity-1 as in the source; Undefined is an empty *)
(* slot of `new Array(capacity)`.                                          *)
(***************************************************************************)
MaxCapacity == 3

MaxPushed == 5

RingItems == {1, 2, 3}

Undefined == 0

\* constructor, line 11-13 (head, tail, _size initialised at 7-9)
RingBuffer(capacity) ==
    [capacity |-> capacity, buffer |-> [i \in 0..(capacity - 1) |-> Undefined],
     head |-> 0, tail |-> 0, size |-> 0]

\* push advancing tail on every call, also while the buffer is filling
PushAlwaysAdvancesTail(r, item) ==
    LET stored == [r EXCEPT !.buffer[r.head] = item,
                            !.head = (r.head + 1) % r.capacity]
    IN  IF r.size < r.capacity
        THEN [stored EXCEPT !.size = @ + 1, !.tail = (@ + 1) % r.capacity]
        ELSE [stored EXCEPT !.tail = (@ + 1) % r.capacity]

\* push, line 18-27
Push(r, item) ==
    LET stored == [r EXCEPT !.buffer[r.head] = item,
                            !.head = (r.head + 1) % r.capacity]
    IN  IF r.size < r.capacity
        THEN [stored EXCEPT !.size = @ + 1]
        ELSE [stored EXCEPT !.tail = (@ + 1) % r.capacity]

\* pushMany, line 32-36: push(item) for each item in order
RECURSIVE PushMany(_, _)
PushMany(r, items) ==
    IF items = <<>> THEN r ELSE PushMany(Push(r, Head(items)), Tail(items))

\* toArray, line 41-48: result[i] = buffer[(tail + _size - 1 - i) % capacity]
ToArray(r) ==
    [k \in 1..r.size |-> r.buffer[(r.tail + r.size - 1 - (k - 1)) % r.capacity]]

\* clear, line 73-78
Clear(r) == RingBuffer(r.capacity)

\* new RingBuffer(capacity)
RingNew(capacity) ==
    /\ ring = NoRing
    /\ ring' = RingBuffer(capacity)
    /\ UNCHANGED <<storeSide, wsVars, call, client, stats, logged, pushed,
                   arrayOut, sse>>

RingPush(item) ==
    /\ ring # NoRing
    /\ Len(pushed) < MaxPushed
    /\ ring' = Push(ring, item)
    /\ pushed' = Append(pushed, item)
    /\ UNCHANGED <<storeSide, wsVars, call, client, stats, logged, arrayOut, sse>>

RingPushMany(items) ==
    /\ ring # NoRing
    /\ Len(pushed) + Len(items) <= MaxPushed
    /\ ring' = PushMany(ring, items)
    /\ pushed' = pushed \o items
    /\ UNCHANGED <<storeSide, wsVars, call, client, stats, logged, arrayOut, sse>>

RingToArray ==
    /\ ring # NoRing
    /\ arrayOut' = ToArray(ring)
    /\ UNCHANGED <<storeSide, wsVars, call, client, stats, logged, ring, pushed,
                   sse>>

RingClear ==
    /\ ring # NoRing
    /\ ring' = Clear(ring)
    /\ pushed' = <<>>
    /\ UNCHANGED <<storeSide, wsVars, call, client, stats, logged, arrayOut, sse>>

RingBatches == {<<>>} \cup {<<a, b>> : a \in RingItems, b \in RingItems}

NextRing ==
    \/ \E capacity \in 1..MaxCapacity : RingNew(capacity)
    \/ \E item \in RingItems : RingPush(item)
    \/ \E items \in RingBatches : RingPushMany(items)
    \/ RingToArray
    \/ RingClear

SpecRing == Init /\ [][NextRing]_vars

(***************************************************************************)
(* C31                                                                     *)
(***************************************************************************)
\* the last n items of s, newest first
LastPushedNewestFirst(s, n) == [k \in 1..n |-> s[Len(s) - (k - 1)]]

RingShape(r, history) ==
    /\ r.size = Min(Len(history), r.capacity)
    /\ r.head = (r.tail + r.size) % r.capacity
    /\ ToArray(r) = LastPushedNewestFirst(history, r.size)

\* a single push on a full buffer
PushOnFull ==
    /\ ring.capacity >= 1
    /\ ring.size = ring.capacity
    /\ Len(pushed') = Len(pushed) + 1

\* the slot of the oldest item takes the new item, every other slot is kept
OverwritesOldestOnly ==
    /\ ring'.buffer[ring.tail] = pushed'[Len(pushed')]
    /\ \A i \in 0..(ring.capacity - 1) :
           i # ring.tail => ring'.buffer[i] = ring.buffer[i]

\* C31: after any sequence of push, pushMany and clear on a buffer of capacity
\* c >= 1, size is min(pushes since the last clear, c), head is
\* (tail + size) mod c and toArray is the last `size` pushed items, newest
\* first; a push on a full buffer overwrites the oldest item only.
C31_RingBufferKeepsNewest ==
    [][/\ ring'.capacity >= 1 => RingShape(ring', pushed')
       /\ PushOnFull => OverwritesOldestOnly]_vars

\* a buffer of capacity 2 or more that has wrapped around, read by toArray
C31_Witness ==
    /\ ring.capacity >= 2
    /\ Len(pushed) > ring.capacity
    /\ ring.tail # 0
    /\ arrayOut = ToArray(ring)
    /\ Len(arrayOut) = ring.capacity
    /\ arrayOut[1] # arrayOut[2]

(***************************************************************************)
(* SseStreamController.StreamLogs (part_013) polling InMemoryStore while   *)
(* other threads are inside AddLog.                                        *)
(***************************************************************************)
MaxPolls == 2

\* GetLogsSince: int limit = 100 (part_010 line 70)
SinceLimit == 100

RECURSIVE InsertById(_, _)
InsertById(s, x) ==
    IF s = <<>> THEN <<x>>
    ELSE IF Head(s).id <= x.id
         THEN <<Head(s)>> \o InsertById(Tail(s), x)
         ELSE <<x>> \o s

RECURSIVE OrderById(_)
\* Enumerable.OrderBy(l => l.Id): stable, smallest id first
OrderById(s) ==
    IF s = <<>> THEN <<>>
    ELSE InsertById(OrderById(SubSeq(s, 1, Len(s) - 1)), s[Len(s)])

\* GetLogsSince, part_010 line 70-77
GetLogsSince(sinceId, limit) ==
    Take(OrderById(SelectSeq(logs, LAMBDA l : l.id > sinceId)), limit)

\* StreamLogs line 48-49: the entries the service filter lets through
Emitted(newLogs, serviceName) ==
    SelectSeq(newLogs, LAMBDA l : serviceName = Null \/ l.svc = serviceName)

\* StreamLogs line 56-61: one "id: ..." event per entry
LogEvents(s) == [i \in 1..Len(s) |-> [event |-> "log", id |-> s[i].id]]

\* StreamLogs line 65-69
Heartbeat(newLogs) == IF Len(newLogs) = 0 THEN <<[event |-> "heartbeat", id |-> 0]>>
                      ELSE <<>>

\* StreamLogs line 27-38: the request arrives, lastId = 0
StreamLogs(serviceName) ==
    /\ sse.state = "none"
    /\ sse' = [sse EXCEPT !.state = "polling", !.serviceName = serviceName]
    /\ UNCHANGED <<storeSide, wsVars, call, client, stats, logged, ring, pushed,
                   arrayOut>>

\* StreamLogs line 42-71: one iteration of the poll loop
StreamLogsPoll ==
    /\ sse.state = "polling"
    /\ sse.polls < MaxPolls
    /\ LET newLogs == GetLogsSince(sse.lastId, SinceLimit)
           out == Emitted(newLogs, sse.serviceName)
       IN  sse' = [sse EXCEPT
                     !.written = @ \o LogEvents(out) \o Heartbeat(newLogs),
                     !.lastId = IF out = <<>> THEN @ ELSE out[Len(out)].id,
                     !.polls = @ + 1]
    /\ UNCHANGED <<storeSide, wsVars, call, client, stats, logged, ring, pushed,
                   arrayOut>>

\* StreamLogs line 42, 74-77: the request is cancelled
StreamLogsCancelled ==
    /\ sse.state = "polling"
    /\ sse' = [sse EXCEPT !.state = "ended"]
    /\ UNCHANGED <<storeSide, wsVars, call, client, stats, logged, ring, pushed,
                   arrayOut>>

SseFilters == {Null, "b"}

SseLogInputs == LogShapes({"a"}, {"t1"}, {"Info"}, {1})

NextSse ==
    \/ \E t \in Threads :
          \/ \E log \in SseLogInputs : BeginAddLog(t, log)
          \/ LogEnqueue(t)
          \/ LogServiceGet(t)
          \/ LogServiceEnqueue(t)
          \/ LogTraceGet(t)
          \/ LogTraceEnqueue(t)
          \/ LogTrimCount(t)
          \/ LogTrimDequeue(t)
          \/ Return(t)
    \/ \E serviceName \in SseFilters : StreamLogs(serviceName)
    \/ StreamLogsPoll
    \/ StreamLogsCancelled

SpecSse == Init /\ [][NextSse]_vars

(***************************************************************************)
(* C32                                                                     *)
(***************************************************************************)
WrittenIds == {sse.written[i].id : i \in {j \in DOMAIN sse.written :
                                            sse.written[j].event = "log"}}

\* C32: with no service filter, every log in the store whose id is at or
\* below the last emitted id has been emitted: no log with a lower id becomes
\* visible after that id was written to the stream.
C32_SseEmitsEveryLog ==
    sse.state # "none" /\ sse.serviceName = Null =>
        \A i \in DOMAIN logs : logs[i].id <= sse.lastId => logs[i].id \in WrittenIds

(***************************************************************************)
(* C33                                                                     *)
(***************************************************************************)
\* the store call for the record behind payload has returned to its handler
StoredBefore(payload) ==
    \E t \in Threads :
        /\ call[t].pc # "none"
        /\ \E j \in DOMAIN call[t].stored : call[t].stored[j].msg = payload.msg

\* thread t writes a message into the queue of connection c in this step
EnqueuesTo(t, c) ==
    /\ call[t].pc = "write"
    /\ Len(enqueued'[c]) = Len(enqueued[c]) + 1
    /\ enqueued'[c][Len(enqueued'[c])].payload.msg[1] = t

\* C33: every record an ingestion handler enqueues to a subscriber's queue
\* was added to the store before it is enqueued.
C33_StoredBeforeEnqueued ==
    [][\A t \in Threads, c \in ConnectionIds :
          EnqueuesTo(t, c) =>
              StoredBefore(enqueued'[c][Len(enqueued'[c])].payload)]_vars

\* a subscriber's queue has received a span and a log, from two handlers
C33_Witness ==
    \E c \in ConnectionIds :
        /\ \E k \in DOMAIN enqueued[c] : enqueued[c][k].channel = "traces"
        /\ \E k \in DOMAIN enqueued[c] : enqueued[c][k].channel = "logs"

(***************************************************************************)
(* C34, C35                                                                *)
(***************************************************************************)
\* a new WebSocket object is created in this step
CreatesSocket == Len(client'.readyState) > Len(client.readyState)

\* C34: after disconnect() no new connection is opened unless connect() is
\* called again: the close the client asked for starts no reconnect.
C34_DisconnectStopsReconnect ==
    [][client.userClosed /\ client'.userClosed => ~CreatesSocket]_vars

\* the WebSocket objects that are connecting or open
LiveSockets ==
    {s \in 1..Len(client.readyState) : client.readyState[s] \in {"CONNECTING", "OPEN"}}

\* C35: a WebSocketService has at most one socket that is connecting or open
\* at any time.
C35_AtMostOneLiveSocket == Cardinality(LiveSockets) <= 1

=============================================================================
